---- MODULE Spec2Model ----
(***************************************************************************)
(* Supervisor core of reverse-proxy-agent (package supervisor, type        *)
(* Runner): the Run loop, Start/Stop, RequestStop, the restart triggers    *)
(* with their debounce gate, the per-spawn wait task and success-grace     *)
(* task, and the child processes.  Sleeps and timeouts end at some moment  *)
(* the model does not fix; the debounce instant is kept as the seconds     *)
(* elapsed since the last accepted trigger.                                *)
(***************************************************************************)
EXTENDS Integers, Sequences, FiniteSets, TLC

\* ---------------------------------------------------------------- bounds
MaxAttempts == 2      \* Start calls made by the Run loop
MaxInFlight == 1      \* restart triggers being handled at the same time
MaxCalls == 3         \* calls of the debounce gate driven alone
MaxMutations == 3     \* mutations of persisted fields seen by the snapshot sink
MaxStopCalls == 2     \* calls of RequestStop
MaxTicks == 3         \* ticks of the TCP probe's ticker
MaxNexts == 6         \* calls made on a Backoff
MaxTail == 2          \* lines of a stderr tail given to the classifier
MaxPolls == 2         \* ticks of the network watcher's ticker

\* ------------------------------------------------------ program constants
RingSize == 10            \* sshutil.NewLineBuffer(10)

\* ------------------------------------------------------------ value sets
Nil == 0
ChildIds == 1..MaxAttempts
Never == -1                      \* lastTrigger.IsZero()
States == {"Stopped", "Connecting", "Connected"}
Policies == {"always", "on-failure"}
BackoffFactor == 2
\* the configurations the supervisor is built with: restart policy, debounce
\* window (seconds; debounce_ms 0 and 2000), backoff min and max (seconds)
Configs == {[policy |-> "always", debounce |-> 0, min |-> 1, max |-> 2],
            [policy |-> "on-failure", debounce |-> 0, min |-> 0, max |-> 0]}
TrigConfigs == {[policy |-> "always", debounce |-> 2, min |-> 0, max |-> 0]}
\* what cmd.Wait() reports: nil, an *exec.ExitError, another error
WaitErrs == {"nil", "ExitError", "other"}
\* the ways a child ends: the wait error and the lines it wrote to stderr
Exits == {[err |-> "nil", tail |-> <<>>],
          [err |-> "ExitError", tail |-> <<>>],
          [err |-> "ExitError", tail |-> <<"Permission denied (publickey).">>],
          [err |-> "ExitError", tail |-> <<"Host key verification failed.">>]}
\* the stderr lines given to the classifier when it is driven alone
TailSamples == {"PERMISSION DENIED (publickey).",
                "Host key verification failed.",
                "ssh: Could not resolve hostname foo",
                "connect to host foo port 22: Connection refused",
                "Connection timed out",
                "connect: Network is unreachable",
                "Warning: Permanently added 'foo'",
                "Unauthorized: no route to host"}
Stoppers == {"run", "req"}
\* the goroutines that change a persisted field: the Run loop, a restart
\* trigger, a success-grace task
Mutators == {"loop", "trigger", "grace"}
\* a snapshot that leaves the trigger reason out
snapshotWithoutTrigger(exit, class, trigger, success) ==
  [lastExit |-> exit, lastClass |-> class, lastTrigger |-> "", lastSuccess |-> success]
\* lines 970-980: snapshotLocked; lastSuccess 0 is the zero time
snapshotLocked(exit, class, trigger, success) ==
  [lastExit |-> exit, lastClass |-> class, lastTrigger |-> trigger, lastSuccess |-> success]
\* a captured snapshot and the number of mutations made when it was captured
NoSnap == [snap |-> snapshotLocked("", "", "", 0), at |-> 0]
TrigProcs == {"request", "monitor", "periodic"}
Reasons(t) == CASE t = "request" -> {"remote forward added"}
                [] t = "monitor" -> {"network change"}
                [] t = "periodic" -> {"periodic"}

NoEvent == [level |-> "", ev |-> "none", info |-> ""]
Event(level, ev, info) == [level |-> level, ev |-> ev, info |-> info]

\* what a call of the agent's forward API returned: (bool, error), with the
\* call it answers; ClearRemoteForwards returns the bool alone
NoRet == [op |-> "none", arg |-> "", changed |-> FALSE, err |-> "nil"]
Ret(op, arg, changed, err) == [op |-> op, arg |-> arg, changed |-> changed, err |-> err]

VARIABLES
  \* configuration, fixed at construction
  policy, debounce, bcfg,
  \* Runner fields
  sm, cmd, waitDone, waitErr, logger, stopCh, restartCount, lastExit,
  backoff, errLines, lastSuccess, lastClass, since, startSuccessCount,
  startFailureCount, exitSuccessCount, exitFailureCount, lastTriggerReason,
  \* the Run loop: position, locals, result
  runPc, rcmd, serr, werr, rclass, rfrom, runRet, attempts, ctxDone,
  \* Stop(): called inline by the Run loop ("run") and by the goroutine
  \* RequestStop launches ("req")
  spc, scmd, swd, sres,
  \* child processes, their completion channels, success-grace tasks
  child, cerr, closed, gpc, early,
  \* restart triggers
  tpc, treason, twrote,
  \* the event the last step logged, the result the last step returned to
  \* a caller of the forward API
  emitted, ret,
  \* the debounce gate driven alone
  gNow, gSince, gWindow, gLog,
  \* the agent: the remote forwards of its configuration
  forwards,
  \* the snapshot sink: the installed writer, the mutators (position and
  \* captured snapshot), the mutations made, the snapshots delivered, the
  \* holder of the supervisor mutex
  stateWriter, mpc, msnap, mlog, sunk, mu,
  \* RequestStop: stopOnce, the calls made, the times stopCh was closed and
  \* Stop was launched
  stopOnce, rsCalls, closes, launched,
  \* the TCP reachability probe: its position, the ticks of its ticker, the
  \* three fields it records
  ppc, pticks, tcpCheckStatus, tcpCheckError, lastTCPCheck,
  \* the Android client's Backoff: its parameters, its stored delay, the log
  \* of the calls made on it
  minDelayMs, maxDelayMs, jitter, currentDelay, delays,
  \* the exit classifier driven alone: its three inputs and the label returned
  tailLines, code, failure, label,
  \* the network watcher: the interfaces that are up, the watcher's position,
  \* its recorded fingerprint, the interfaces that were up when it was
  \* recorded, the log of its polls
  ifUp, wpc, prev, netAtPrev, wlog,
  \* the stderr pipe of each child: the lines written that the drain task has
  \* not yet added to the ring, and all the lines the child wrote
  pipe, wrote

cfgVars == <<policy, debounce, bcfg>>
fieldVars == <<sm, cmd, waitDone, waitErr, logger, stopCh, restartCount, lastExit,
               backoff, errLines, lastSuccess, lastClass, since, startSuccessCount,
               startFailureCount, exitSuccessCount, exitFailureCount, lastTriggerReason>>
runVars == <<runPc, rcmd, serr, werr, rclass, rfrom, runRet, attempts, ctxDone>>
stopVars == <<spc, scmd, swd, sres>>
childVars == <<child, cerr, closed, gpc, early>>
trigVars == <<tpc, treason, twrote>>
gateVars == <<gNow, gSince, gWindow, gLog>>
fwdVars == <<forwards>>
snapVars == <<stateWriter, mpc, msnap, mlog, sunk, mu>>
onceVars == <<stopOnce, rsCalls, closes, launched>>
probeVars == <<ppc, pticks, tcpCheckStatus, tcpCheckError, lastTCPCheck>>
backVars == <<minDelayMs, maxDelayMs, jitter, currentDelay, delays>>
classVars == <<tailLines, code, failure, label>>
watchVars == <<ifUp, wpc, prev, netAtPrev, wlog>>
pureVars == <<backVars, classVars, watchVars>>
pipeVars == <<pipe, wrote>>
moreVars == <<probeVars, pureVars, pipeVars>>
\* all but the variables of the pure components
runnerVars == <<cfgVars, fieldVars, runVars, stopVars, childVars, trigVars, gateVars,
                fwdVars, snapVars, onceVars, probeVars, pipeVars>>
sideVars == <<gateVars, fwdVars, snapVars, onceVars, moreVars>>
vars == <<cfgVars, fieldVars, runVars, stopVars, childVars, trigVars, emitted, ret,
          sideVars>>

\* ------------------------------------------------- pkg/state StateMachine
Legal(from, to) ==
  \/ from = "Stopped" /\ to = "Connecting"
  \/ from = "Connecting" /\ to = "Connected"
  \/ from = "Connecting" /\ to = "Stopped"
  \/ from = "Connected" /\ to = "Stopped"

\* Transition(to): the state afterwards; the error is ~Legal(sm, to)
Transition(from, to) == IF Legal(from, to) THEN to ELSE from

\* ------------------------------------------------------ pkg/sshutil
\* strings.ToLower, on the ASCII letters
UpperCase == "ABCDEFGHIJKLMNOPQRSTUVWXYZ"
LowerCase == "abcdefghijklmnopqrstuvwxyz"
LowerMap ==
  [ch \in {SubSeq(UpperCase, i, i) : i \in 1..Len(UpperCase)} |->
     LET i == CHOOSE i \in 1..Len(UpperCase) : SubSeq(UpperCase, i, i) = ch
     IN SubSeq(LowerCase, i, i)]
LowerOf(ch) == IF ch \in DOMAIN LowerMap THEN LowerMap[ch] ELSE ch
RECURSIVE ToLower(_)
ToLower(s) ==
  IF Len(s) = 0 THEN "" ELSE LowerOf(SubSeq(s, 1, 1)) \o ToLower(SubSeq(s, 2, Len(s)))

\* strings.Contains
Contains(s, sub) ==
  \E i \in 1..(Len(s) - Len(sub) + 1) : SubSeq(s, i, i + Len(sub) - 1) = sub

\* the substrings of each pattern group
Patterns(group) ==
  CASE group = "auth" -> {"permission denied", "auth"}
    [] group = "hostkey" -> {"host key", "known_hosts"}
    [] group = "dns" -> {"name or service not known", "could not resolve"}
    [] group = "refused" -> {"connection refused"}
    [] group = "timeout" -> {"timed out"}
    [] group = "network" -> {"network is unreachable", "no route to host"}

\* a tail line matches a group when one of the group's substrings occurs in
\* it, letter case ignored
Matches(line, group) ==
  LET lower == ToLower(line)
  IN \E sub \in Patterns(group) : Contains(lower, sub)

ClassOrder == <<"auth", "hostkey", "dns", "refused", "timeout", "network">>

\* the positions in ClassOrder of the groups a line matches; for the lines
\* that occur in the model the matching is computed once and looked up
MatchedBy(line) == {i \in 1..Len(ClassOrder) : Matches(line, ClassOrder[i])}
KnownLines == TailSamples \cup UNION {{x.tail[k] : k \in 1..Len(x.tail)} : x \in Exits}
MatchedTable == [line \in KnownLines |-> MatchedBy(line)]
Matched(line) == IF line \in KnownLines THEN MatchedTable[line] ELSE MatchedBy(line)

\* ClassifyExit with the last matching group taken instead of the first
ClassifyExitLastMatch(lines, exitCode, err) ==
  IF err = "nil" /\ exitCode = 0 THEN "clean"
  ELSE LET hit == UNION {Matched(lines[k]) : k \in 1..Len(lines)}
       IN IF hit = {} THEN "unknown"
          ELSE ClassOrder[CHOOSE i \in hit : \A j \in hit : i >= j]

ClassifyExit(lines, exitCode, err) ==
  IF err = "nil" /\ exitCode = 0 THEN "clean"
  ELSE LET hit == UNION {Matched(lines[k]) : k \in 1..Len(lines)}
       IN IF hit = {} THEN "unknown"
          ELSE ClassOrder[CHOOSE i \in hit : \A j \in hit : i <= j]

\* LineBuffer.Add: a ring of the last RingSize lines
RingAdd(lines, line) ==
  IF Len(lines) < RingSize THEN Append(lines, line) ELSE Append(Tail(lines), line)

\* drain: every line read from the pipe is added to the ring
RECURSIVE Drain(_, _)
Drain(lines, tail) ==
  IF tail = <<>> THEN lines ELSE Drain(RingAdd(lines, Head(tail)), Tail(tail))

\* ------------------------------------------------------ pkg/restart Backoff
Min(a, b) == IF a <= b THEN a ELSE b
BackoffNext(stored, cfg) == Min(cfg.max, stored * BackoffFactor)
BackoffReset(cfg) == cfg.min

\* ------------------------------------------------------ exit code of a wait error
ExitCode(err) == CASE err = "nil" -> 0 [] err = "ExitError" -> 255 [] OTHER -> -1

\* ------------------------------------------------------ Runner.shouldRestart
\* a policy switch that restarts whatever the policy
shouldRestartAnyPolicy(exitCode, err, class) ==
  IF class \in {"auth", "hostkey"} THEN FALSE ELSE TRUE
\* a policy switch that restarts after failures only, whatever the policy
shouldRestartOnFailureOnly(exitCode, err, class) ==
  IF class \in {"auth", "hostkey"} THEN FALSE ELSE err # "nil" \/ exitCode # 0
shouldRestart(exitCode, err, class) ==
  IF class \in {"auth", "hostkey"} THEN FALSE
  ELSE IF policy = "on-failure" THEN err # "nil" \/ exitCode # 0
  ELSE TRUE

\* ------------------------------------------------------ Runner.allowTrigger
\* a gate that lets every trigger through
allowTriggerOpen(window, elapsed) == [ok |-> TRUE, elapsed |-> 0]
\* a gate whose window starts again at a dropped trigger
allowTriggerExtending(window, elapsed) ==
  IF window <= 0 THEN [ok |-> TRUE, elapsed |-> elapsed]
  ELSE IF elapsed # Never /\ elapsed < window THEN [ok |-> FALSE, elapsed |-> 0]
  ELSE [ok |-> TRUE, elapsed |-> 0]
\* elapsed = now - lastTrigger, or Never while lastTrigger is the zero time
allowTrigger(window, elapsed) ==
  IF window <= 0 THEN [ok |-> TRUE, elapsed |-> elapsed]
  ELSE IF elapsed # Never /\ elapsed < window THEN [ok |-> FALSE, elapsed |-> elapsed]
  ELSE [ok |-> TRUE, elapsed |-> 0]

Alive(c) == child[c] \in {"running", "terminating"}
Unreaped(c) == child[c] \in {"running", "terminating", "exited"}
\* a signal (SIGTERM, interrupt, kill) sent to process c
Signal(ch, c) == IF c # Nil /\ ch[c] = "running" THEN [ch EXCEPT ![c] = "terminating"] ELSE ch

\* the state after NewRunner
Constructed ==
  /\ sm = "Stopped"
  /\ cmd = Nil /\ waitDone = Nil /\ waitErr = "nil"
  /\ logger = FALSE
  /\ stopCh = FALSE
  /\ restartCount = 0
  /\ lastExit = ""
  /\ backoff = BackoffReset(bcfg)
  /\ errLines = <<>>
  /\ lastSuccess = Nil
  /\ lastClass = ""
  /\ since = Never
  /\ startSuccessCount = 0 /\ startFailureCount = 0
  /\ exitSuccessCount = 0 /\ exitFailureCount = 0
  /\ lastTriggerReason = ""
  /\ runPc = "init" /\ rcmd = Nil /\ serr = "" /\ werr = "nil" /\ rclass = ""
  /\ rfrom = "" /\ runRet = "" /\ attempts = 0 /\ ctxDone = FALSE
  /\ spc = [p \in Stoppers |-> "idle"]
  /\ scmd = [p \in Stoppers |-> Nil]
  /\ swd = [p \in Stoppers |-> Nil]
  /\ sres = [p \in Stoppers |-> ""]
  /\ child = [c \in ChildIds |-> "none"]
  /\ cerr = [c \in ChildIds |-> "nil"]
  /\ closed = {}
  /\ gpc = [c \in ChildIds |-> "none"]
  /\ early = {}
  /\ tpc = [t \in TrigProcs |-> "idle"]
  /\ treason = [t \in TrigProcs |-> ""]
  /\ twrote = [t \in TrigProcs |-> FALSE]
  /\ emitted = NoEvent /\ ret = NoRet
  /\ ppc = "idle" /\ pticks = 0
  /\ tcpCheckStatus = "unknown" /\ tcpCheckError = "" /\ lastTCPCheck = Never
  /\ pipe = [c \in ChildIds |-> <<>>]
  /\ wrote = [c \in ChildIds |-> <<>>]

Configured(cfgs) ==
  \E c \in cfgs : /\ policy = c.policy
                  /\ debounce = c.debounce
                  /\ bcfg = [min |-> c.min, max |-> c.max]

GateIdle == gNow = 0 /\ gSince = Never /\ gWindow = 0 /\ gLog = <<>>

\* a validated configuration has at least one remote forward
FwdIdle == forwards = <<"a">>

\* no mutator is at work, nothing was delivered to the sink
SnapIdle ==
  /\ mpc = [m \in Mutators |-> "idle"]
  /\ msnap = [m \in Mutators |-> NoSnap]
  /\ mlog = <<>>
  /\ sunk = <<>>
  /\ mu = "free"

OnceIdle == stopOnce = FALSE /\ rsCalls = 0 /\ closes = 0 /\ launched = 0

\* no Backoff of the Android client is under test
BackIdle ==
  /\ minDelayMs = 0 /\ maxDelayMs = 0 /\ jitter = 0 /\ currentDelay = 0 /\ delays = <<>>
\* no classification is under test
ClassIdle == tailLines = <<>> /\ code = 0 /\ failure = "nil" /\ label = "none"
\* no network watcher is under test
WatchIdle == ifUp = {} /\ wpc = "off" /\ prev = "" /\ netAtPrev = {} /\ wlog = <<>>
PureIdle == BackIdle /\ ClassIdle /\ WatchIdle

Init ==
  /\ Configured(Configs) /\ Constructed
  /\ GateIdle /\ FwdIdle /\ stateWriter = TRUE /\ SnapIdle /\ OnceIdle /\ PureIdle

TrigInit ==
  /\ Configured(TrigConfigs) /\ Constructed
  /\ GateIdle /\ FwdIdle /\ stateWriter = TRUE /\ SnapIdle /\ OnceIdle /\ PureIdle

Quiet == emitted' = NoEvent /\ ret' = NoRet
Emit(level, ev, info) == emitted' = Event(level, ev, info) /\ ret' = NoRet
Set(f, k, v) == [f EXCEPT ![k] = v]

\* ======================================================== Runner.Stop
\* lines 475-482: read cmd and waitDone, send the interrupt
StopRead(p) ==
  /\ spc[p] = "read"
  /\ scmd' = Set(scmd, p, cmd)
  /\ swd' = Set(swd, p, waitDone)
  /\ child' = Signal(child, cmd)
  /\ spc' = Set(spc, p, IF cmd # Nil /\ waitDone # Nil THEN "wait3" ELSE "trans")
  /\ Quiet
  /\ UNCHANGED <<cfgVars, fieldVars, runVars, sres, cerr, closed, gpc, early, trigVars,
                 sideVars>>

\* Stop calling cmd.Wait itself instead of waiting for the completion event
StopWaitsItself(p) ==
  /\ spc[p] = "wait3" /\ scmd[p] # Nil /\ child[scmd[p]] = "exited"
  /\ child' = Set(child, scmd[p], "reaped")
  /\ spc' = Set(spc, p, "trans")
  /\ Quiet
  /\ UNCHANGED <<cfgVars, fieldVars, runVars, scmd, swd, sres, cerr, closed, gpc, early,
                 trigVars, sideVars>>

\* line 484: the completion event fired within the first wait
StopWaitDone(p) ==
  /\ spc[p] = "wait3" /\ swd[p] \in closed
  /\ spc' = Set(spc, p, "trans")
  /\ Quiet
  /\ UNCHANGED <<cfgVars, fieldVars, runVars, scmd, swd, sres, childVars, trigVars, sideVars>>

\* lines 485-486: 3 s passed, force-kill
StopWaitTimeout(p) ==
  /\ spc[p] = "wait3"
  /\ child' = Signal(child, scmd[p])
  /\ spc' = Set(spc, p, "wait1")
  /\ Quiet
  /\ UNCHANGED <<cfgVars, fieldVars, runVars, scmd, swd, sres, cerr, closed, gpc, early,
                 trigVars, sideVars>>

\* line 488
StopKillDone(p) ==
  /\ spc[p] = "wait1" /\ swd[p] \in closed
  /\ spc' = Set(spc, p, "trans")
  /\ Quiet
  /\ UNCHANGED <<cfgVars, fieldVars, runVars, scmd, swd, sres, childVars, trigVars, sideVars>>

\* line 489: 1 s more passed
StopKillTimeout(p) ==
  /\ spc[p] = "wait1"
  /\ spc' = Set(spc, p, "trans")
  /\ Quiet
  /\ UNCHANGED <<cfgVars, fieldVars, runVars, scmd, swd, sres, childVars, trigVars, sideVars>>

\* lines 494-497: the transition to Stopped, its error is Stop's result
\* (line 722: the goroutine of RequestStop drops it)
StopTransition(p) ==
  /\ spc[p] = "trans"
  /\ sm' = Transition(sm, "Stopped")
  /\ sres' = IF p # "run" THEN sres
            ELSE Set(sres, p, IF Legal(sm, "Stopped") THEN "nil" ELSE "invalid transition")
  /\ spc' = Set(spc, p, "done")
  /\ scmd' = Set(scmd, p, Nil) /\ swd' = Set(swd, p, Nil)
  /\ Quiet
  /\ UNCHANGED <<cfgVars, cmd, waitDone, waitErr, logger, stopCh, restartCount, lastExit,
                 backoff, errLines, lastSuccess, lastClass, since, startSuccessCount,
                 startFailureCount, exitSuccessCount, exitFailureCount, lastTriggerReason,
                 runVars, childVars, trigVars, sideVars>>

\* ======================================================== Runner.RequestStop
\* lines 718-725: the first call closes stopCh and launches Stop
RequestStop ==
  /\ ~stopCh
  /\ stopCh' = TRUE
  /\ spc' = Set(spc, "req", "read")
  /\ Quiet
  /\ UNCHANGED <<cfgVars, sm, cmd, waitDone, waitErr, logger, restartCount, lastExit,
                 backoff, errLines, lastSuccess, lastClass, since, startSuccessCount,
                 startFailureCount, exitSuccessCount, exitFailureCount, lastTriggerReason,
                 runVars, scmd, swd, sres, childVars, trigVars, sideVars>>

\* a Once that has forgotten it was used
OnceForgotten == FALSE
\* line 719: stopOnce.Do runs its function at the first call only
OnceDone == stopOnce

\* lines 718-725: RequestStop called any number of times, each call as a
\* whole (callers of a sync.Once in use wait for it): close(stopCh) and the
\* launch of Stop are counted; closing a closed channel panics
RequestStopCall ==
  /\ rsCalls < MaxStopCalls
  /\ rsCalls' = rsCalls + 1
  /\ IF OnceDone
       THEN UNCHANGED <<stopOnce, stopCh, closes, launched, spc>>
       ELSE /\ stopOnce' = TRUE
            /\ stopCh' = TRUE /\ closes' = closes + 1
            /\ spc' = Set(spc, "req", "read") /\ launched' = launched + 1
  /\ Quiet
  /\ UNCHANGED <<cfgVars, sm, cmd, waitDone, waitErr, logger, restartCount, lastExit,
                 backoff, errLines, lastSuccess, lastClass, since, startSuccessCount,
                 startFailureCount, exitSuccessCount, exitFailureCount, lastTriggerReason,
                 runVars, scmd, swd, sres, childVars, trigVars, gateVars, fwdVars,
                 snapVars, moreVars>>

\* lines 564-567: the goroutine that cancels the monitors' context on stop
CancelOnStop ==
  /\ runPc # "init" /\ stopCh /\ ~ctxDone
  /\ ctxDone' = TRUE
  /\ Quiet
  /\ UNCHANGED <<cfgVars, fieldVars, runPc, rcmd, serr, werr, rclass, rfrom, runRet,
                 attempts, stopVars, childVars, trigVars, sideVars>>

\* lines 564-566: that goroutine, launched by RunWithLogger, is blocked on
\* <-r.stopCh as long as stop is not latched; it listens to nothing else
WatcherBlocked == runPc # "init" /\ ~stopCh

\* ======================================================== Runner.RunWithLogger
handleVars == <<cmd, waitDone, waitErr, errLines>>
countVars == <<restartCount, startSuccessCount, startFailureCount, exitSuccessCount,
               exitFailureCount>>
lastVars == <<lastExit, lastClass, lastSuccess, lastTriggerReason>>
runLocals == <<rcmd, serr, werr, rclass, rfrom, runRet>>

\* lines 500-567: the start event, setLogger, the event sources are launched
RunBegin ==
  /\ runPc = "init"
  /\ runPc' = "check"
  /\ logger' = TRUE
  /\ Emit("INFO", "start", "")
  /\ UNCHANGED <<cfgVars, sm, handleVars, stopCh, countVars, lastVars, backoff, since,
                 runLocals, attempts, ctxDone, stopVars, childVars, trigVars,
                 sideVars>>

\* lines 570-575: the stop check at the top of the loop; Stop is called when
\* stop is latched, Start otherwise
RunCheck ==
  /\ runPc = "check"
  /\ IF stopCh
       THEN /\ runPc' = "in_stop" /\ rfrom' = "check"
            /\ spc' = Set(spc, "run", "read")
            /\ Emit("INFO", "stop_requested", "")
            /\ UNCHANGED attempts
       ELSE /\ attempts < MaxAttempts
            /\ attempts' = attempts + 1
            /\ runPc' = "s_connecting"
            /\ Quiet
            /\ UNCHANGED <<rfrom, spc>>
  /\ UNCHANGED <<cfgVars, fieldVars, rcmd, serr, werr, rclass, runRet, ctxDone,
                 scmd, swd, sres, childVars, trigVars, sideVars>>

\* lines 573 and 712: the inline Stop returned.  At the stop check Run returns
\* its result; in the backoff sleep a nil result lets the loop continue
RunStopReturn ==
  /\ runPc = "in_stop" /\ spc["run"] = "done"
  /\ spc' = Set(spc, "run", "idle")
  /\ sres' = Set(sres, "run", "")
  /\ IF rfrom = "check" \/ sres["run"] # "nil"
       THEN runPc' = "ret" /\ runRet' = sres["run"]
       ELSE runPc' = "check" /\ UNCHANGED runRet
  /\ rfrom' = ""
  /\ Quiet
  /\ UNCHANGED <<cfgVars, fieldVars, rcmd, serr, werr, rclass, attempts, ctxDone,
                 scmd, swd, childVars, trigVars, sideVars>>

\* ---------------------------------------------------------- Runner.Start
\* line 398: Transition(Connecting); Start returns the error when rejected
RunStartConnecting ==
  /\ runPc = "s_connecting"
  /\ sm' = Transition(sm, "Connecting")
  /\ IF Legal(sm, "Connecting")
       THEN runPc' = "s_build" /\ UNCHANGED serr
       ELSE runPc' = "start_failed" /\ serr' = "invalid transition"
  /\ Quiet
  /\ UNCHANGED <<cfgVars, handleVars, logger, stopCh, countVars, lastVars, backoff, since,
                 rcmd, werr, rclass, rfrom, runRet, attempts, ctxDone, stopVars,
                 childVars, trigVars, sideVars>>

\* a failed start that is not counted
RunSpawnFailUncounted ==
  /\ runPc = "s_build"
  /\ sm' = Transition(sm, "Stopped")
  /\ serr' = "spawn error"
  /\ runPc' = "start_failed"
  /\ Quiet
  /\ UNCHANGED <<cfgVars, handleVars, logger, stopCh, restartCount, startSuccessCount,
                 startFailureCount, exitSuccessCount, exitFailureCount, lastVars, backoff,
                 since, rcmd, werr, rclass, rfrom, runRet, attempts, ctxDone, stopVars,
                 childVars, trigVars, sideVars>>

\* lines 402-426: build, the pipes or cmd.Start fail: back to Stopped, the
\* start failure is counted
RunSpawnFail ==
  /\ runPc = "s_build"
  /\ sm' = Transition(sm, "Stopped")
  /\ startFailureCount' = startFailureCount + 1
  /\ serr' = "spawn error"
  /\ runPc' = "start_failed"
  /\ Quiet
  /\ UNCHANGED <<cfgVars, handleVars, logger, stopCh, restartCount, startSuccessCount,
                 exitSuccessCount, exitFailureCount, lastVars, backoff, since, rcmd, werr,
                 rclass, rfrom, runRet, attempts, ctxDone, stopVars, childVars,
                 trigVars, sideVars>>

\* line 422: cmd.Start succeeds, the process runs
RunSpawnOk ==
  /\ runPc = "s_build"
  /\ rcmd' = attempts
  /\ child' = Set(child, attempts, "running")
  /\ runPc' = "s_assign"
  /\ Quiet
  /\ UNCHANGED <<cfgVars, fieldVars, serr, werr, rclass, rfrom, runRet, attempts,
                 ctxDone, stopVars, cerr, closed, gpc, early, trigVars, sideVars>>

\* lines 428-447: the handle, a fresh completion channel and stderr ring are
\* stored; the wait task and the drains are launched
RunAssign ==
  /\ runPc = "s_assign"
  /\ cmd' = rcmd /\ waitDone' = rcmd /\ waitErr' = "nil" /\ errLines' = <<>>
  /\ runPc' = "s_connected"
  /\ Quiet
  /\ UNCHANGED <<cfgVars, sm, logger, stopCh, countVars, lastVars, backoff, since,
                 runLocals, attempts, ctxDone, stopVars, childVars, trigVars,
                 sideVars>>

\* line 449: Transition(Connected) accepted
RunConnected ==
  /\ runPc = "s_connected" /\ Legal(sm, "Connected")
  /\ sm' = "Connected"
  /\ runPc' = "started"
  /\ Quiet
  /\ UNCHANGED <<cfgVars, handleVars, logger, stopCh, countVars, lastVars, backoff, since,
                 runLocals, attempts, ctxDone, stopVars, childVars, trigVars,
                 sideVars>>

\* lines 449-451: Transition(Connected) rejected: terminateProcess, then the
\* bounded wait
\* a rejected transition after which Start returns the error at once
RunRejectedReturnsAtOnce ==
  /\ runPc = "s_connected" /\ ~Legal(sm, "Connected")
  /\ runPc' = "s_rej_clear"
  /\ Quiet
  /\ UNCHANGED <<cfgVars, fieldVars, runLocals, attempts, ctxDone, stopVars, childVars,
                 trigVars, sideVars>>

RunConnectedRejected ==
  /\ runPc = "s_connected" /\ ~Legal(sm, "Connected")
  /\ child' = Signal(child, cmd)
  /\ runPc' = "s_rej_wait3"
  /\ Quiet
  /\ UNCHANGED <<cfgVars, fieldVars, runLocals, attempts, ctxDone, stopVars, cerr, closed,
                 gpc, early, trigVars, sideVars>>

\* line 452
RunRejWaitDone ==
  /\ runPc = "s_rej_wait3" /\ rcmd \in closed
  /\ runPc' = "s_rej_clear"
  /\ Quiet
  /\ UNCHANGED <<cfgVars, fieldVars, runLocals, attempts, ctxDone, stopVars, childVars,
                 trigVars, sideVars>>

\* lines 453-454
RunRejTimeout ==
  /\ runPc = "s_rej_wait3"
  /\ child' = Signal(child, rcmd)
  /\ runPc' = "s_rej_wait1"
  /\ Quiet
  /\ UNCHANGED <<cfgVars, fieldVars, runLocals, attempts, ctxDone, stopVars, cerr, closed,
                 gpc, early, trigVars, sideVars>>

\* line 456
RunRejKillDone ==
  /\ runPc = "s_rej_wait1" /\ rcmd \in closed
  /\ runPc' = "s_rej_clear"
  /\ Quiet
  /\ UNCHANGED <<cfgVars, fieldVars, runLocals, attempts, ctxDone, stopVars, childVars,
                 trigVars, sideVars>>

\* line 457
RunRejKillTimeout ==
  /\ runPc = "s_rej_wait1"
  /\ runPc' = "s_rej_clear"
  /\ Quiet
  /\ UNCHANGED <<cfgVars, fieldVars, runLocals, attempts, ctxDone, stopVars,
                 childVars, trigVars, sideVars>>

\* lines 460-467: the handle is cleared, Start returns the transition error
RunRejClear ==
  /\ runPc = "s_rej_clear"
  /\ IF cmd = rcmd
       THEN cmd' = Nil /\ waitDone' = Nil /\ waitErr' = "nil"
       ELSE UNCHANGED <<cmd, waitDone, waitErr>>
  /\ serr' = "invalid transition"
  /\ runPc' = "start_failed"
  /\ Quiet
  /\ UNCHANGED <<cfgVars, sm, errLines, logger, stopCh, countVars, lastVars, backoff, since,
                 rcmd, werr, rclass, rfrom, runRet, attempts, ctxDone, stopVars,
                 childVars, trigVars, sideVars>>

\* ---------------------------------------------------------- Start called directly
\* line 397: Start is public; a caller other than the Run loop calls it, for
\* the first time or after an earlier call has returned
StartCall ==
  /\ runPc \in {"init", "returned", "start_failed"}
  /\ attempts < MaxAttempts
  /\ attempts' = attempts + 1
  /\ serr' = ""
  /\ runPc' = "s_connecting"
  /\ Quiet
  /\ UNCHANGED <<cfgVars, fieldVars, rcmd, werr, rclass, rfrom, runRet, ctxDone,
                 stopVars, childVars, trigVars, sideVars>>

\* lines 469-471: recordStartSuccess, scheduleSuccessMark arms the grace
\* task, Start returns nil to its caller
StartReturn ==
  /\ runPc = "started"
  /\ startSuccessCount' = startSuccessCount + 1
  /\ gpc' = Set(gpc, rcmd, "sleep")
  /\ runPc' = "returned"
  /\ Quiet
  /\ UNCHANGED <<cfgVars, sm, handleVars, logger, stopCh, restartCount, startFailureCount,
                 exitSuccessCount, exitFailureCount, lastVars, backoff, since, runLocals,
                 attempts, ctxDone, stopVars, child, cerr, closed, early, trigVars,
                 sideVars>>

\* ---------------------------------------------------------- the loop body
\* lines 577-585: Start returned an error: lastExit, lastTriggerReason, the
\* ssh_start_failed event, restartCount++
RunStartFailed ==
  /\ runPc = "start_failed"
  /\ lastExit' = "start failed: " \o serr
  /\ lastTriggerReason' = "start failed"
  /\ restartCount' = restartCount + 1
  /\ serr' = ""
  /\ runPc' = "backoff"
  /\ Emit("ERROR", "ssh_start_failed", serr)
  /\ UNCHANGED <<cfgVars, sm, handleVars, logger, stopCh, startSuccessCount,
                 startFailureCount, exitSuccessCount, exitFailureCount, lastClass,
                 lastSuccess, backoff, since, rcmd, werr, rclass, rfrom, runRet,
                 attempts, ctxDone, stopVars, childVars, trigVars, sideVars>>

\* lines 699-707 (sleepWithBackoff): Next() returns the stored delay and
\* advances it; a delay <= 0 returns at once
RunBackoff ==
  /\ runPc = "backoff"
  /\ backoff' = BackoffNext(backoff, bcfg)
  /\ IF backoff <= 0
       THEN runPc' = "check" /\ Quiet
       ELSE runPc' = "sleep"
            /\ Emit("INFO", "restart_scheduled", "")
  /\ UNCHANGED <<cfgVars, sm, handleVars, logger, stopCh, countVars, lastVars, since,
                 runLocals, attempts, ctxDone, stopVars, childVars, trigVars, sideVars>>

\* line 713: the backoff timer fired (line 605: the 2 s sleep ended)
RunSleepTimer ==
  /\ runPc \in {"sleep", "ns_sleep"}
  /\ runPc' = "check"
  /\ Quiet
  /\ UNCHANGED <<cfgVars, fieldVars, runLocals, attempts, ctxDone, stopVars,
                 childVars, trigVars, sideVars>>

\* a sleep that is ended by the stop without the event
RunSleepStopSilent ==
  /\ runPc = "sleep" /\ stopCh
  /\ runPc' = "in_stop" /\ rfrom' = "sleep"
  /\ spc' = Set(spc, "run", "read")
  /\ Quiet
  /\ UNCHANGED <<cfgVars, fieldVars, rcmd, serr, werr, rclass, runRet, attempts, ctxDone,
                 scmd, swd, sres, childVars, trigVars, sideVars>>
\* lines 710-712: stop latched during the backoff sleep: Stop is called
RunSleepStop ==
  /\ runPc = "sleep" /\ stopCh
  /\ runPc' = "in_stop" /\ rfrom' = "sleep"
  /\ spc' = Set(spc, "run", "read")
  /\ Emit("INFO", "stop_during_backoff", "")
  /\ UNCHANGED <<cfgVars, fieldVars, rcmd, serr, werr, rclass, runRet, attempts, ctxDone,
                 scmd, swd, sres, childVars, trigVars, sideVars>>

\* lines 469-471 and 592-607: recordStartSuccess, scheduleSuccessMark arms
\* the grace task, Start returns nil; the ssh_started event; the handle and
\* its completion channel are read back
RunStarted ==
  /\ runPc = "started"
  /\ startSuccessCount' = startSuccessCount + 1
  /\ gpc' = Set(gpc, rcmd, "sleep")
  /\ rcmd' = cmd
  /\ IF cmd = Nil \/ waitDone = Nil
       THEN /\ lastExit' = "ssh command not started"
            /\ sm' = Transition(sm, "Stopped")
            /\ runPc' = "ns_sleep"
            /\ Emit("ERROR", "ssh_start_failed", "ssh command not started")
       ELSE /\ runPc' = "wait"
            /\ Emit("INFO", "ssh_started", "")
            /\ UNCHANGED <<lastExit, sm>>
  /\ UNCHANGED <<cfgVars, handleVars, logger, stopCh, restartCount, startFailureCount,
                 exitSuccessCount, exitFailureCount, lastClass, lastSuccess,
                 lastTriggerReason, backoff, since, serr, werr, rclass, rfrom, runRet,
                 attempts, ctxDone, stopVars, child, cerr, closed, early, trigVars, sideVars>>

FormatExit(exitCode, err) ==
  CASE err = "nil" -> "exit 0" [] err = "ExitError" -> "exit 255" [] OTHER -> "exit -1"

\* a loop that goes on without the completion event
WaitDoneSkipped == TRUE
\* line 609: <-waitDone
WaitDoneClosed == rcmd \in closed

\* an exit handling that counts a failed exit as a clean one as well
RunExitedCountsBoth ==
  /\ runPc = "wait" /\ WaitDoneClosed
  /\ LET class == ClassifyExit(errLines, ExitCode(waitErr), waitErr)
         msg == FormatExit(ExitCode(waitErr), waitErr)
     IN /\ rclass' = class
        /\ lastClass' = class
        /\ lastExit' = IF class # "clean" THEN msg \o " (" \o class \o ")" ELSE msg
        /\ Emit(IF waitErr # "nil" THEN "ERROR" ELSE "INFO", "ssh_exited", class)
  /\ werr' = waitErr
  /\ IF waitErr # "nil"
       THEN exitFailureCount' = exitFailureCount + 1
            /\ exitSuccessCount' = exitSuccessCount + 1
       ELSE exitSuccessCount' = exitSuccessCount + 1 /\ UNCHANGED exitFailureCount
  /\ runPc' = "to_stopped"
  /\ UNCHANGED <<cfgVars, sm, handleVars, logger, stopCh, restartCount, startSuccessCount,
                 startFailureCount, lastSuccess, lastTriggerReason, backoff, since, rcmd,
                 serr, rfrom, runRet, attempts, ctxDone, stopVars, childVars,
                 trigVars, sideVars>>

\* lines 609-649: the completion event fired, waitErr is read; exit counters,
\* classification, lastClass, lastExit, the ssh_exited event
RunExited ==
  /\ runPc = "wait" /\ WaitDoneClosed
  /\ LET class == ClassifyExit(errLines, ExitCode(waitErr), waitErr)
         msg == FormatExit(ExitCode(waitErr), waitErr)
     IN /\ rclass' = class
        /\ lastClass' = class
        /\ lastExit' = IF class # "clean" THEN msg \o " (" \o class \o ")" ELSE msg
        /\ Emit(IF waitErr # "nil" THEN "ERROR" ELSE "INFO", "ssh_exited", class)
  /\ werr' = waitErr
  /\ IF waitErr # "nil"
       THEN exitFailureCount' = exitFailureCount + 1 /\ UNCHANGED exitSuccessCount
       ELSE exitSuccessCount' = exitSuccessCount + 1 /\ UNCHANGED exitFailureCount
  /\ runPc' = "to_stopped"
  /\ UNCHANGED <<cfgVars, sm, handleVars, logger, stopCh, restartCount, startSuccessCount,
                 startFailureCount, lastSuccess, lastTriggerReason, backoff, since, rcmd,
                 serr, rfrom, runRet, attempts, ctxDone, stopVars, childVars,
                 trigVars, sideVars>>

\* line 651
RunToStopped ==
  /\ runPc = "to_stopped"
  /\ sm' = Transition(sm, "Stopped")
  /\ runPc' = "clear"
  /\ Quiet
  /\ UNCHANGED <<cfgVars, handleVars, logger, stopCh, countVars, lastVars, backoff, since,
                 runLocals, attempts, ctxDone, stopVars, childVars, trigVars,
                 sideVars>>

\* lines 653-657
RunClear ==
  /\ runPc = "clear"
  /\ cmd' = Nil /\ waitDone' = Nil /\ waitErr' = "nil"
  /\ runPc' = "decide"
  /\ Quiet
  /\ UNCHANGED <<cfgVars, sm, errLines, logger, stopCh, countVars, lastVars, backoff, since,
                 runLocals, attempts, ctxDone, stopVars, childVars, trigVars,
                 sideVars>>

\* a decision that restarts after every exit
RunDecideAlways ==
  /\ runPc = "decide"
  /\ backoff' = IF werr = "nil" THEN BackoffReset(bcfg) ELSE backoff
  /\ restartCount' = restartCount + 1
  /\ runPc' = "backoff"
  /\ Quiet
  /\ rcmd' = Nil /\ werr' = "nil" /\ rclass' = ""
  /\ UNCHANGED <<cfgVars, sm, handleVars, logger, stopCh, startSuccessCount,
                 startFailureCount, exitSuccessCount, exitFailureCount, lastVars, since,
                 serr, rfrom, runRet, attempts, ctxDone, stopVars, childVars, trigVars,
                 sideVars>>
\* a restart decision that resets the backoff after every exit
RunDecideResetsAlways ==
  /\ runPc = "decide"
  /\ IF ~shouldRestart(ExitCode(werr), werr, rclass) \/ rclass \in {"auth", "hostkey"}
       THEN /\ runPc' = "ret" /\ runRet' = "nil"
            /\ Emit("INFO", "restart_policy_stop", rclass)
            /\ UNCHANGED <<backoff, restartCount>>
       ELSE /\ backoff' = BackoffReset(bcfg)
            /\ restartCount' = restartCount + 1
            /\ runPc' = "backoff"
            /\ Quiet
            /\ UNCHANGED runRet
  /\ rcmd' = Nil /\ werr' = "nil" /\ rclass' = ""
  /\ UNCHANGED <<cfgVars, sm, handleVars, logger, stopCh, startSuccessCount,
                 startFailureCount, exitSuccessCount, exitFailureCount, lastVars, since,
                 serr, rfrom, attempts, ctxDone, stopVars, childVars, trigVars,
                 sideVars>>
\* lines 659-679: the restart decision
RunDecide ==
  /\ runPc = "decide"
  /\ IF ~shouldRestart(ExitCode(werr), werr, rclass)
       THEN /\ runPc' = "ret" /\ runRet' = "nil"
            /\ Emit("INFO", "restart_policy_stop", rclass)
            /\ UNCHANGED <<backoff, restartCount>>
       ELSE IF rclass \in {"auth", "hostkey"}
       THEN /\ runPc' = "ret" /\ runRet' = "nil"
            /\ Emit("ERROR", "restart_policy_stop", rclass)
            /\ UNCHANGED <<backoff, restartCount>>
       ELSE /\ backoff' = IF werr = "nil" THEN BackoffReset(bcfg) ELSE backoff
            /\ restartCount' = restartCount + 1
            /\ runPc' = "backoff"
            /\ Quiet
            /\ UNCHANGED runRet
  /\ rcmd' = Nil /\ werr' = "nil" /\ rclass' = ""
  /\ UNCHANGED <<cfgVars, sm, handleVars, logger, stopCh, startSuccessCount,
                 startFailureCount, exitSuccessCount, exitFailureCount, lastVars, since,
                 serr, rfrom, attempts, ctxDone, stopVars, childVars, trigVars,
                 sideVars>>

\* lines 556-558: the deferred cancel of the monitors' context
RunCancel ==
  /\ runPc = "ret"
  /\ ctxDone' = TRUE
  /\ runPc' = "ret_wait"
  /\ Quiet
  /\ UNCHANGED <<cfgVars, fieldVars, runLocals, attempts, stopVars, childVars,
                 trigVars, sideVars>>

\* lines 558-562, 523, 520: the monitors have returned (no callback of
\* theirs is running), periodicStop is closed, the logger is unset, the stop
\* event is logged; Run returns runRet
RunReturn ==
  /\ runPc = "ret_wait" /\ tpc["monitor"] = "idle" /\ ppc = "idle"
  /\ logger' = FALSE
  /\ runPc' = "done"
  /\ Emit("INFO", "stop", "")
  /\ UNCHANGED <<cfgVars, sm, handleVars, stopCh, countVars, lastVars, backoff, since,
                 runLocals, attempts, ctxDone, stopVars, childVars, trigVars,
                 sideVars>>

\* ======================================================== the child process
\* the process ends with wait error err, having written the lines of tail to
\* stderr (line 447: the drain adds them to the ring of its spawn); "early"
\* remembers an exit before the grace period ended
Exit(c, err, tail) ==
  /\ child' = Set(child, c, "exited")
  /\ cerr' = Set(cerr, c, err)
  /\ errLines' = IF cmd = c THEN Drain(errLines, tail) ELSE errLines
  /\ early' = IF gpc[c] \in {"none", "sleep"} THEN early \cup {c} ELSE early
  /\ Quiet
  /\ UNCHANGED <<cfgVars, sm, cmd, waitDone, waitErr, logger, stopCh, countVars, lastVars,
                 backoff, since, runVars, stopVars, closed, gpc, trigVars, sideVars>>

\* the process ends, the lines of tail written to its stderr pipe and not yet
\* read by the drain task of its spawn (line 447)
PipedExit(c, x) ==
  /\ child[c] = "running"
  /\ child' = Set(child, c, "exited")
  /\ cerr' = Set(cerr, c, x.err)
  /\ pipe' = Set(pipe, c, x.tail)
  /\ wrote' = Set(wrote, c, x.tail)
  /\ early' = IF gpc[c] \in {"none", "sleep"} THEN early \cup {c} ELSE early
  /\ Quiet
  /\ UNCHANGED <<cfgVars, fieldVars, runVars, stopVars, closed, gpc, trigVars,
                 gateVars, fwdVars, snapVars, onceVars, probeVars, pureVars>>

\* lines 1019-1026: the drain task reads one line and adds it to the ring of
\* its spawn
DrainLine(c) ==
  /\ pipe[c] # <<>>
  /\ errLines' = IF cmd = c THEN RingAdd(errLines, Head(pipe[c])) ELSE errLines
  /\ pipe' = Set(pipe, c, Tail(pipe[c]))
  /\ Quiet
  /\ UNCHANGED <<cfgVars, sm, cmd, waitDone, waitErr, logger, stopCh, countVars, lastVars,
                 backoff, since, runVars, stopVars, childVars, trigVars, wrote,
                 gateVars, fwdVars, snapVars, onceVars, probeVars, pureVars>>

\* cmd.Wait (line 437) closes the read end of the pipe when the process has
\* ended: the lines the drain task had not read by then are never added
PipeClosed(c) ==
  /\ child[c] = "reaped" /\ pipe[c] # <<>>
  /\ pipe' = Set(pipe, c, <<>>)
  /\ Quiet
  /\ UNCHANGED <<cfgVars, fieldVars, runVars, stopVars, childVars, trigVars, wrote,
                 gateVars, fwdVars, snapVars, onceVars, probeVars, pureVars>>

\* the child exits by itself
ChildExit(c, x) == child[c] = "running" /\ Exit(c, x.err, x.tail)

\* the child exits after an interrupt, SIGTERM or kill
ChildDie(c, x) == child[c] = "terminating" /\ Exit(c, x.err, x.tail)

\* lines 436-444: the wait task: cmd.Wait returns, waitErr is stored if the
\* handle is still current, the completion channel is closed
WaitTask(c) ==
  /\ child[c] = "exited"
  /\ ~(runPc = "s_assign" /\ rcmd = c)
  /\ child' = Set(child, c, "reaped")
  /\ waitErr' = IF cmd = c /\ waitDone = c THEN cerr[c] ELSE waitErr
  /\ closed' = closed \cup {c}
  /\ cerr' = Set(cerr, c, "nil")
  /\ Quiet
  /\ UNCHANGED <<cfgVars, sm, cmd, waitDone, errLines, logger, stopCh, countVars, lastVars,
                 backoff, since, runVars, stopVars, gpc, early, trigVars,
                 sideVars>>

\* line 891: the grace period (successGracePeriod, 2 s) is over
GraceWake(c) ==
  /\ gpc[c] = "sleep"
  /\ gpc' = Set(gpc, c, "woke")
  /\ Quiet
  /\ UNCHANGED <<cfgVars, fieldVars, runVars, stopVars, child, cerr, closed, early, trigVars,
                 sideVars>>

\* lines 892-901 (scheduleSuccessMark): lastSuccess is set when the handle is
\* still this child and the state is Connected
GraceTask(c) ==
  /\ gpc[c] = "woke"
  /\ gpc' = Set(gpc, c, "done")
  /\ IF cmd # c \/ sm # "Connected"
       THEN UNCHANGED lastSuccess /\ early' = early \ {c}
       ELSE lastSuccess' = c /\ UNCHANGED early
  /\ Quiet
  /\ UNCHANGED <<cfgVars, sm, handleVars, logger, stopCh, countVars, lastExit, lastClass,
                 lastTriggerReason, backoff, since, runVars, stopVars, child, cerr, closed,
                 trigVars, sideVars>>

\* ======================================================== Backoff (Android client)
\* part_004 lines 361-389.  The parameters a Backoff is built with: delays in
\* ms, jitter in percent; the factor is BackoffFactor
BackoffParams == {[min |-> 2000, max |-> 30000, jitter |-> 0],
                  [min |-> 0, max |-> 3, jitter |-> 0],
                  [min |-> 3, max |-> 3, jitter |-> 0],
                  [min |-> 1, max |-> 5, jitter |-> 100]}

\* lines 379-388: without jitter the value itself; otherwise a value drawn
\* from [value - delta, value + delta), of which the ends and the middle
\* are taken here
applyJitter(value) ==
  IF jitter <= 0 THEN {value}
  ELSE LET delta == (value * jitter) \div 100
       IN {value - delta, value, value + delta - 1}

\* nextDelayMs without the clamp to maxDelayMs
nextDelayUnclamped ==
  /\ Len(delays) < MaxNexts
  /\ \E delay \in applyJitter(currentDelay) :
       delays' = Append(delays, [op |-> "next", stored |-> currentDelay, delay |-> delay])
  /\ currentDelay' = currentDelay * BackoffFactor
  /\ Quiet
  /\ UNCHANGED <<runnerVars, classVars, watchVars, minDelayMs, maxDelayMs, jitter>>

\* lines 369-373
nextDelayMs ==
  /\ Len(delays) < MaxNexts
  /\ \E delay \in applyJitter(currentDelay) :
       delays' = Append(delays, [op |-> "next", stored |-> currentDelay, delay |-> delay])
  /\ currentDelay' = Min(maxDelayMs, currentDelay * BackoffFactor)
  /\ Quiet
  /\ UNCHANGED <<runnerVars, classVars, watchVars, minDelayMs, maxDelayMs, jitter>>

\* lines 375-377
reset ==
  /\ Len(delays) < MaxNexts
  /\ currentDelay' = minDelayMs
  /\ delays' = Append(delays, [op |-> "reset", stored |-> currentDelay, delay |-> 0])
  /\ Quiet
  /\ UNCHANGED <<runnerVars, classVars, watchVars, minDelayMs, maxDelayMs, jitter>>

\* ======================================================== the TCP probe
\* what tcpCheck returns (lines 956-962): nil, or the error of the dial
DialErrs == {"nil", "dial tcp: i/o timeout"}

\* a probe that dials whatever the state is
TickDialsAlways ==
  /\ runPc \notin {"init", "done"} /\ ppc = "idle" /\ pticks < MaxTicks
  /\ pticks' = pticks + 1
  /\ ppc' = "dial"
  /\ Quiet
  /\ UNCHANGED <<cfgVars, fieldVars, runVars, stopVars, childVars, trigVars,
                 tcpCheckStatus, tcpCheckError, lastTCPCheck,
                 gateVars, fwdVars, snapVars, onceVars, pureVars, pipeVars>>

\* lines 930-939: tcpCheckLoop (launched by RunWithLogger, lines 543-549, and
\* waited for at its return) takes a tick of its ticker; unless the state is
\* Connected it goes back to the select, otherwise it dials
ProbeTick ==
  /\ runPc \notin {"init", "done"} /\ ppc = "idle" /\ pticks < MaxTicks
  /\ pticks' = pticks + 1
  /\ ppc' = IF sm # "Connected" THEN "idle" ELSE "dial"
  /\ Quiet
  /\ UNCHANGED <<cfgVars, fieldVars, runVars, stopVars, childVars, trigVars,
                 tcpCheckStatus, tcpCheckError, lastTCPCheck,
                 gateVars, fwdVars, snapVars, onceVars, pureVars, pipeVars>>

\* lines 939 and 943-954: the dial is over, recordTCPCheck stores its result
\* and the time
ProbeRecord(err) ==
  /\ ppc = "dial"
  /\ lastTCPCheck' = pticks
  /\ tcpCheckStatus' = IF err # "nil" THEN "failed" ELSE "ok"
  /\ tcpCheckError' = IF err # "nil" THEN err ELSE ""
  /\ ppc' = "idle"
  /\ Quiet
  /\ UNCHANGED <<cfgVars, fieldVars, runVars, stopVars, childVars, trigVars, pticks,
                 gateVars, fwdVars, snapVars, onceVars, pureVars, pipeVars>>

\* ======================================================== time
\* one more second has passed since the last accepted trigger
Elapse ==
  /\ since # Never /\ since < debounce
  /\ since' = since + 1
  /\ Quiet
  /\ UNCHANGED <<cfgVars, sm, handleVars, logger, stopCh, countVars, lastVars, backoff,
                 runVars, stopVars, childVars, trigVars, sideVars>>

\* ======================================================== restart triggers
IsPeriodic(t) == t = "periodic"
InFlight == {t \in TrigProcs : tpc[t] # "idle"}
\* RequestRestart can be called at any time; the monitors call back until
\* their context is cancelled; the ticker of periodicRestartLoop runs while
\* Run does
Live(t) == CASE t = "request" -> TRUE
             [] t = "monitor" -> runPc \notin {"init", "done"} /\ ~ctxDone
             [] t = "periodic" -> runPc \notin {"init", "done"}
\* a state check that only stops a trigger of a Stopped supervisor
IgnoredWhenStopped(st) == st = "Stopped"
\* lines 735 and 770: r.State() != state.StateConnected
Ignored(st) == st # "Connected"
TrigReturn(t) ==
  /\ tpc' = Set(tpc, t, "idle")
  /\ treason' = Set(treason, t, "")
  /\ twrote' = Set(twrote, t, FALSE)

\* lines 727-737 (RequestRestart, triggerRestart), 532-541 (monitor
\* callbacks), 769-772 (ticker): a trigger arrives; only a Connected
\* supervisor goes on, otherwise the call returns and nothing is logged
TrigCall(t, reason) ==
  /\ tpc[t] = "idle" /\ Live(t)
  /\ Cardinality(InFlight) < MaxInFlight
  /\ IF Ignored(sm)
       THEN /\ emitted' = Event("", "(trigger ignored)", reason) /\ ret' = NoRet
            /\ UNCHANGED trigVars
       ELSE /\ tpc' = Set(tpc, t, IF IsPeriodic(t) THEN "gate" ELSE "set")
            /\ treason' = Set(treason, t, reason)
            /\ UNCHANGED twrote
            /\ Quiet
  /\ UNCHANGED <<cfgVars, fieldVars, runVars, stopVars, childVars, sideVars>>

\* lines 738 and 780-783: setLastTriggerReason
TrigSetReason(t) ==
  /\ tpc[t] = "set"
  /\ lastTriggerReason' = treason[t]
  /\ twrote' = Set(twrote, t, TRUE)
  /\ tpc' = Set(tpc, t, IF IsPeriodic(t) THEN "term" ELSE "gate")
  /\ IF IsPeriodic(t) THEN Emit("INFO", "restart_triggered", treason[t]) ELSE Quiet
  /\ UNCHANGED <<cfgVars, sm, handleVars, logger, stopCh, countVars, lastExit, lastClass,
                 lastSuccess, backoff, since, runVars, stopVars, childVars, treason,
                 sideVars>>

\* lines 739-752 and 773-779: the debounce gate; a dropped trigger logs
\* restart_skipped and returns
TrigGate(t) ==
  /\ tpc[t] = "gate"
  /\ LET r == allowTrigger(debounce, since)
     IN /\ since' = r.elapsed
        /\ IF ~r.ok
             THEN /\ TrigReturn(t)
                  /\ Emit("INFO", "restart_skipped", treason[t] \o ": debounced")
             ELSE /\ tpc' = Set(tpc, t, IF IsPeriodic(t) THEN "set" ELSE "term")
                  /\ UNCHANGED <<treason, twrote>>
                  /\ IF IsPeriodic(t) THEN Quiet
                       ELSE Emit("INFO", "restart_triggered", treason[t])
  /\ UNCHANGED <<cfgVars, sm, handleVars, logger, stopCh, countVars, lastVars, backoff,
                 runVars, stopVars, childVars, sideVars>>

\* lines 753, 784 and 803-810: terminateProcess sends SIGTERM to r.cmd
TrigTerminate(t) ==
  /\ tpc[t] = "term"
  /\ child' = Signal(child, cmd)
  /\ TrigReturn(t)
  /\ Quiet
  /\ UNCHANGED <<cfgVars, fieldVars, runVars, stopVars, cerr, closed, gpc, early,
                 sideVars>>

\* ======================================================== the agent: remote forwards
\* the specifications given to AddRemoteForward and RemoveRemoteForward
FwdInputs == {"", " ", " b"}
\* strings.TrimSpace on the strings used here
TrimSpace(str) == CASE str = " " -> "" [] str = " a" -> "a" [] str = " b" -> "b" [] OTHER -> str
Has(seq, v) == \E i \in 1..Len(seq) : seq[i] = v

\* the normalisation without its seen-set: an entry may stay twice
RECURSIVE NormalizeKeepingTwice(_, _)
NormalizeKeepingTwice(out, fs) ==
  IF fs = <<>> THEN out
  ELSE LET trimmed == TrimSpace(Head(fs))
       IN NormalizeKeepingTwice(IF trimmed = "" THEN out ELSE Append(out, trimmed),
                                Tail(fs))

\* part_006 lines 330-351 and 376-394: trimmed, no empty entry, no entry
\* twice, in the order given
RECURSIVE NormalizeInto(_, _)
NormalizeInto(out, fs) ==
  IF fs = <<>> THEN out
  ELSE LET trimmed == TrimSpace(Head(fs))
       IN NormalizeInto(IF trimmed = "" \/ Has(out, trimmed) THEN out
                        ELSE Append(out, trimmed), Tail(fs))
NormalizeRemoteForwards(fs) == NormalizeInto(<<>>, fs)
SetRemoteForwards(fs) == NormalizeInto(<<>>, fs)
\* agent.go lines 188-196: the sequence RemoteForwards() reports and every
\* spawn reads
currentRemoteForwards == NormalizeRemoteForwards(forwards)

\* agent.go line 86, lines 727-754: RequestRestart as one call: the state
\* check, setLastTriggerReason, the debounce gate, terminateProcess
RequestRestart(reason) ==
  IF Ignored(sm)
    THEN /\ UNCHANGED <<lastTriggerReason, since, child>>
         /\ emitted' = Event("", "(trigger ignored)", reason)
    ELSE /\ lastTriggerReason' = reason
         /\ LET r == allowTrigger(debounce, since)
            IN /\ since' = r.elapsed
               /\ IF r.ok
                    THEN /\ child' = Signal(child, cmd)
                         /\ emitted' = Event("INFO", "restart_triggered", reason)
                    ELSE /\ UNCHANGED child
                         /\ emitted' = Event("INFO", "restart_skipped",
                                             reason \o ": debounced")

\* agent.go lines 129-146
AddRemoteForward(forward) ==
  /\ LET trimmed == TrimSpace(forward)
         current == NormalizeRemoteForwards(forwards)
     IN IF trimmed = ""
          THEN /\ ret' = Ret("add", forward, FALSE, "remote forward is required")
               /\ emitted' = NoEvent
               /\ UNCHANGED <<forwards, lastTriggerReason, since, child>>
          ELSE IF Has(current, trimmed)
          THEN /\ ret' = Ret("add", forward, FALSE, "nil")
               /\ emitted' = NoEvent
               /\ UNCHANGED <<forwards, lastTriggerReason, since, child>>
          ELSE /\ forwards' = SetRemoteForwards(Append(current, trimmed))
               /\ RequestRestart("remote forward added")
               /\ ret' = Ret("add", forward, TRUE, "nil")
  /\ UNCHANGED <<cfgVars, sm, handleVars, logger, stopCh, countVars, lastExit, lastClass,
                 lastSuccess, backoff, runVars, stopVars, cerr, closed, gpc, early,
                 trigVars, gateVars, snapVars, onceVars, moreVars>>

\* RemoveRemoteForward without the refusal to remove the last forward
RemoveAnyForward(forward) ==
  /\ LET trimmed == TrimSpace(forward)
         current == NormalizeRemoteForwards(forwards)
         next == SelectSeq(current, LAMBDA existing : existing # trimmed)
     IN IF trimmed = "" \/ ~Has(current, trimmed)
          THEN /\ ret' = Ret("remove", forward, FALSE,
                             IF trimmed = "" THEN "remote forward is required" ELSE "nil")
               /\ emitted' = NoEvent
               /\ UNCHANGED <<forwards, lastTriggerReason, since, child>>
          ELSE /\ forwards' = SetRemoteForwards(next)
               /\ RequestRestart("remote forward removed")
               /\ ret' = Ret("remove", forward, TRUE, "nil")
  /\ UNCHANGED <<cfgVars, sm, handleVars, logger, stopCh, countVars, lastExit, lastClass,
                 lastSuccess, backoff, runVars, stopVars, cerr, closed, gpc, early,
                 trigVars, gateVars, snapVars, onceVars, moreVars>>

\* agent.go lines 148-174
RemoveRemoteForward(forward) ==
  /\ LET trimmed == TrimSpace(forward)
         current == NormalizeRemoteForwards(forwards)
         next == SelectSeq(current, LAMBDA existing : existing # trimmed)
     IN IF trimmed = ""
          THEN /\ ret' = Ret("remove", forward, FALSE, "remote forward is required")
               /\ emitted' = NoEvent
               /\ UNCHANGED <<forwards, lastTriggerReason, since, child>>
          ELSE IF ~Has(current, trimmed)
          THEN /\ ret' = Ret("remove", forward, FALSE, "nil")
               /\ emitted' = NoEvent
               /\ UNCHANGED <<forwards, lastTriggerReason, since, child>>
          ELSE IF Len(next) = 0
          THEN /\ ret' = Ret("remove", forward, FALSE,
                             "at least one remote forward is required")
               /\ emitted' = NoEvent
               /\ UNCHANGED <<forwards, lastTriggerReason, since, child>>
          ELSE /\ forwards' = SetRemoteForwards(next)
               /\ RequestRestart("remote forward removed")
               /\ ret' = Ret("remove", forward, TRUE, "nil")
  /\ UNCHANGED <<cfgVars, sm, handleVars, logger, stopCh, countVars, lastExit, lastClass,
                 lastSuccess, backoff, runVars, stopVars, cerr, closed, gpc, early,
                 trigVars, gateVars, snapVars, onceVars, moreVars>>

\* agent.go lines 176-186: the forwards are emptied, then RequestStop (lines
\* 718-725: the first call closes stopCh and launches Stop)
ClearRemoteForwards ==
  /\ IF Len(NormalizeRemoteForwards(forwards)) = 0
       THEN /\ ret' = Ret("clear", "", FALSE, "nil")
            /\ UNCHANGED <<forwards, stopCh, spc>>
       ELSE /\ forwards' = SetRemoteForwards(<<>>)
            /\ IF stopCh THEN UNCHANGED <<stopCh, spc>>
                 ELSE stopCh' = TRUE /\ spc' = Set(spc, "req", "read")
            /\ ret' = Ret("clear", "", TRUE, "nil")
  /\ emitted' = NoEvent
  /\ UNCHANGED <<cfgVars, sm, handleVars, logger, countVars, lastVars, backoff, since,
                 runVars, scmd, swd, sres, childVars, trigVars, gateVars, snapVars,
                 onceVars, moreVars>>

\* ======================================================== the snapshot sink
\* the mutations each goroutine makes: the loop calls setLastClass and
\* recordExit (lines 625, 630) and setLastTriggerReason (line 579), a trigger
\* calls setLastTriggerReason (lines 738, 780), the grace task sets
\* lastSuccess (line 897)
MutCalls(m) ==
  CASE m = "loop" -> {[f |-> "lastClass", v |-> "unknown"],
                      [f |-> "lastExit", v |-> "exit 255 (unknown)"],
                      [f |-> "lastTriggerReason", v |-> "start failed"]}
    [] m = "trigger" -> {[f |-> "lastTriggerReason", v |-> "network change"]}
    [] m = "grace" -> {[f |-> "lastSuccess", v |-> 1]}

\* lines 881-885, 897-900, 906-910, 915-919: under the mutex the field is
\* set and the snapshot is captured
SnapMutate(m, call) ==
  /\ mpc[m] = "idle" /\ Len(mlog) < MaxMutations
  /\ lastExit' = IF call.f = "lastExit" THEN call.v ELSE lastExit
  /\ lastClass' = IF call.f = "lastClass" THEN call.v ELSE lastClass
  /\ lastTriggerReason' = IF call.f = "lastTriggerReason" THEN call.v ELSE lastTriggerReason
  /\ lastSuccess' = IF call.f = "lastSuccess" THEN call.v ELSE lastSuccess
  /\ mlog' = Append(mlog, call)
  /\ msnap' = Set(msnap, m, [snap |-> snapshotLocked(lastExit', lastClass',
                                                     lastTriggerReason', lastSuccess'),
                             at |-> Len(mlog')])
  /\ mpc' = Set(mpc, m, "write")
  /\ Quiet
  /\ UNCHANGED <<cfgVars, sm, handleVars, logger, stopCh, countVars, backoff, since,
                 runVars, stopVars, childVars, trigVars, gateVars, fwdVars, stateWriter,
                 sunk, mu, onceVars, moreVars>>

\* lines 886, 901, 911, 920 and 982-987: the mutex is released, writeSnapshot
\* hands the captured snapshot to the writer unless it is nil
SnapWrite(m) ==
  /\ mpc[m] = "write"
  /\ sunk' = IF stateWriter THEN Append(sunk, msnap[m]) ELSE sunk
  /\ msnap' = Set(msnap, m, NoSnap)
  /\ mpc' = Set(mpc, m, "idle")
  /\ Quiet
  /\ UNCHANGED <<cfgVars, fieldVars, runVars, stopVars, childVars, trigVars, gateVars,
                 fwdVars, stateWriter, mlog, mu, onceVars, moreVars>>

\* a mutator that calls the writer before it releases the mutex
MutKeepsLock(m) ==
  /\ mpc[m] = "locked"
  /\ mpc' = Set(mpc, m, "write")
  /\ Quiet
  /\ UNCHANGED <<cfgVars, fieldVars, runVars, stopVars, childVars, trigVars, gateVars,
                 fwdVars, stateWriter, msnap, mlog, sunk, mu, onceVars, moreVars>>

\* lines 881-884, 894-899, 906-909, 915-918: r.mu.Lock(), the field is set,
\* the writer is read and the snapshot captured; the mutex is held
MutLock(m, call) ==
  /\ mpc[m] = "idle" /\ mu = "free" /\ Len(mlog) < MaxMutations
  /\ mu' = m
  /\ lastExit' = IF call.f = "lastExit" THEN call.v ELSE lastExit
  /\ lastClass' = IF call.f = "lastClass" THEN call.v ELSE lastClass
  /\ lastTriggerReason' = IF call.f = "lastTriggerReason" THEN call.v ELSE lastTriggerReason
  /\ lastSuccess' = IF call.f = "lastSuccess" THEN call.v ELSE lastSuccess
  /\ mlog' = Append(mlog, call)
  /\ msnap' = Set(msnap, m, [snap |-> snapshotLocked(lastExit', lastClass',
                                                     lastTriggerReason', lastSuccess'),
                             at |-> Len(mlog')])
  /\ mpc' = Set(mpc, m, "locked")
  /\ Quiet
  /\ UNCHANGED <<cfgVars, sm, handleVars, logger, stopCh, countVars, backoff, since,
                 runVars, stopVars, childVars, trigVars, gateVars, fwdVars, stateWriter,
                 sunk, onceVars, moreVars>>

\* lines 885, 900, 910, 919: r.mu.Unlock(); writeSnapshot comes next
MutUnlock(m) ==
  /\ mpc[m] = "locked"
  /\ mu' = "free"
  /\ mpc' = Set(mpc, m, "write")
  /\ Quiet
  /\ UNCHANGED <<cfgVars, fieldVars, runVars, stopVars, childVars, trigVars, gateVars,
                 fwdVars, stateWriter, msnap, mlog, sunk, onceVars, moreVars>>

\* the mutators with the mutex they take, and the writer
LockNext ==
  \E m \in Mutators :
    (\E call \in MutCalls(m) : MutLock(m, call)) \/ MutUnlock(m) \/ SnapWrite(m)

\* SetStateWriter is called at construction, or not at all
SnapInit ==
  /\ Configured(TrigConfigs) /\ Constructed
  /\ GateIdle /\ FwdIdle /\ stateWriter \in BOOLEAN /\ SnapIdle /\ OnceIdle /\ PureIdle

SnapNext ==
  \E m \in Mutators : (\E call \in MutCalls(m) : SnapMutate(m, call)) \/ SnapWrite(m)

SnapSpec == SnapInit /\ [][SnapNext]_vars

LockSpec == SnapInit /\ [][LockNext]_vars

\* a mutator that has released the mutex goes on to the writer, and the
\* writer returns
SnapFairSpec == SnapSpec /\ \A m \in Mutators : WF_vars(SnapWrite(m))

\* ======================================================== the debounce gate alone
\* windows and instants in milliseconds
GateWindows == {-1000, 0, 1000, 2000}
GateTimes == {0, 500, 2000, 2500, 4000}
mainVars == <<cfgVars, fieldVars, runVars, stopVars, childVars, trigVars, emitted, ret>>

GateInit ==
  /\ Configured(TrigConfigs) /\ Constructed
  /\ gNow = 0 /\ gSince = Never /\ gWindow \in GateWindows /\ gLog = <<>>
  /\ FwdIdle /\ stateWriter = TRUE /\ SnapIdle /\ OnceIdle /\ PureIdle

\* time.Now() moves on to t
GateTick(t) ==
  /\ t > gNow
  /\ gNow' = t
  /\ gSince' = IF gSince = Never THEN Never ELSE gSince + (t - gNow)
  /\ UNCHANGED <<mainVars, gWindow, gLog, fwdVars, snapVars, onceVars, moreVars>>

\* lines 789-801: one call of allowTrigger(window)
GateCall ==
  /\ Len(gLog) < MaxCalls
  /\ LET r == allowTrigger(gWindow, gSince)
     IN /\ gSince' = r.elapsed
        /\ gLog' = Append(gLog, [at |-> gNow, ok |-> r.ok])
  /\ UNCHANGED <<mainVars, gNow, gWindow, fwdVars, snapVars, onceVars, moreVars>>

GateNext == GateCall \/ \E t \in GateTimes : GateTick(t)

GateSpec == GateInit /\ [][GateNext]_vars

\* ======================================================== specification
StopNext ==
  \E p \in Stoppers :
    \/ StopRead(p) \/ StopWaitDone(p) \/ StopWaitTimeout(p)
    \/ StopKillDone(p) \/ StopKillTimeout(p) \/ StopTransition(p)

\* the loop while no stop is requested
RunLoop ==
  \/ RunBegin \/ RunCheck \/ RunStartConnecting \/ RunSpawnFail \/ RunSpawnOk \/ RunAssign
  \/ RunConnected \/ RunStartFailed \/ RunBackoff \/ RunStarted \/ RunExited
  \/ RunToStopped \/ RunClear \/ RunDecide \/ RunCancel \/ RunReturn

\* the steps that take a backoff delay or a requested stop
RunStopping ==
  \/ RunSleepTimer \/ RunSleepStop \/ RunStopReturn \/ RunConnectedRejected
  \/ RunRejWaitDone \/ RunRejTimeout \/ RunRejKillDone \/ RunRejKillTimeout \/ RunRejClear

ChildNext ==
  \E c \in ChildIds :
    \/ \E x \in Exits : ChildExit(c, x)
    \/ \E x \in Exits : ChildDie(c, x)
    \/ WaitTask(c)
    \/ GraceWake(c)
    \/ GraceTask(c)

TrigNext ==
  \E t \in TrigProcs :
    \/ \E reason \in Reasons(t) : TrigCall(t, reason)
    \/ TrigSetReason(t) \/ TrigGate(t) \/ TrigTerminate(t)

\* the Run loop, Stop and RequestStop, the children and their tasks
Next == RunLoop \/ RunStopping \/ StopNext \/ RequestStop \/ CancelOnStop \/ ChildNext

Spec == Init /\ [][Next]_vars

\* the goroutines of the program are scheduled, a sleep or a timeout ends, a
\* signalled child ends; a child left alone may run for ever and nobody has
\* to call RequestStop
Fairness ==
  /\ WF_vars(RunLoop \/ RunStopping)
  /\ WF_vars(StopNext)
  /\ WF_vars(CancelOnStop)
  /\ \A c \in ChildIds :
       /\ WF_vars(WaitTask(c)) /\ WF_vars(GraceWake(c)) /\ WF_vars(GraceTask(c))
       /\ WF_vars(\E x \in Exits : ChildDie(c, x))

FairSpec == Spec /\ Fairness

\* the Run loop, the restart triggers, the children and their tasks
TrigSpecNext == RunLoop \/ ChildNext \/ TrigNext \/ Elapse

TrigSpec == TrigInit /\ [][TrigSpecNext]_vars

\* Start called directly, one call after the other
\* nothing signals a child here: the children exit by themselves
StartChildren ==
  \E c \in ChildIds :
    \/ \E x \in Exits : ChildExit(c, x)
    \/ WaitTask(c)
    \/ GraceWake(c)
    \/ GraceTask(c)

StartNext ==
  \/ StartCall \/ RunStartConnecting \/ RunSpawnFail \/ RunSpawnOk \/ RunAssign
  \/ RunConnected \/ StartReturn \/ StartChildren

StartSpec == Init /\ [][StartNext]_vars

\* the agent: the Run loop, the forwards changed at run time (ClearRemoteForwards
\* requests the stop), Stop, the children; no backoff delay is configured, so
\* the loop never sleeps
FwdConfigs == {[policy |-> "on-failure", debounce |-> 0, min |-> 0, max |-> 0]}
FwdInit ==
  /\ Configured(FwdConfigs) /\ Constructed
  /\ GateIdle /\ FwdIdle /\ stateWriter = TRUE /\ SnapIdle /\ OnceIdle /\ PureIdle
\* the empty and the padded specification are added, the blank and the padded
\* one are removed
FwdOps ==
  \/ \E forward \in {"", " b"} : AddRemoteForward(forward)
  \/ \E forward \in {" ", " b"} : RemoveRemoteForward(forward)
  \/ ClearRemoteForwards
\* the steps of the loop that follow a requested stop, the backoff sleep apart
RunHalting ==
  \/ RunStopReturn \/ RunConnectedRejected \/ RunRejWaitDone \/ RunRejTimeout
  \/ RunRejKillDone \/ RunRejKillTimeout \/ RunRejClear
\* the children of this specification write nothing to stderr
FwdExits == {x \in Exits : x.tail = <<>>}
FwdChildren ==
  \E c \in ChildIds :
    \/ \E x \in FwdExits : ChildExit(c, x)
    \/ \E x \in FwdExits : ChildDie(c, x)
    \/ WaitTask(c)
    \/ GraceWake(c)
    \/ GraceTask(c)
FwdNext == RunLoop \/ RunHalting \/ StopNext \/ CancelOnStop \/ FwdChildren \/ FwdOps
FwdSpec == FwdInit /\ [][FwdNext]_vars

\* the agent with one forward whose forwards are cleared at some time; the
\* goroutines are scheduled as in FairSpec, nobody has to call Clear
ClearNext ==
  RunLoop \/ RunHalting \/ StopNext \/ CancelOnStop \/ ChildNext \/ ClearRemoteForwards
ClearSpec == FwdInit /\ [][ClearNext]_vars /\ Fairness

\* the agent whose forwards are added and removed while the loop runs, with
\* a debounce window; time goes on and the goroutines are scheduled
ApplyNext ==
  \/ RunLoop \/ ChildNext \/ Elapse
  \/ AddRemoteForward(" b") \/ RemoveRemoteForward(" b")
ApplySpec == TrigInit /\ [][ApplyNext]_vars /\ Fairness /\ WF_vars(Elapse)

\* the Run loop with the TCP probe configured (TCPCheckSec > 0 and an address)
ProbeNext ==
  \/ RunLoop \/ StartChildren
  \/ ProbeTick \/ \E err \in DialErrs : ProbeRecord(err)
ProbeSpec == FwdInit /\ [][ProbeNext]_vars

\* the Run loop and its children, the stderr drain task of each child taken as
\* a task of its own
DrainNext ==
  \/ RunLoop
  \/ \E c \in ChildIds :
       \/ \E x \in Exits : PipedExit(c, x)
       \/ DrainLine(c) \/ PipeClosed(c)
       \/ WaitTask(c) \/ GraceWake(c) \/ GraceTask(c)
DrainSpec == FwdInit /\ [][DrainNext]_vars

\* ======================================================== the exit handling and the sink
\* lines 609-649 step by step, with the snapshots that setLastClass and
\* recordExit hand to the writer before they return
\* lines 609-624: waitErr is read, the exit is counted and classified
ExitCounted ==
  /\ runPc = "wait" /\ WaitDoneClosed
  /\ werr' = waitErr
  /\ IF waitErr # "nil"
       THEN exitFailureCount' = exitFailureCount + 1 /\ UNCHANGED exitSuccessCount
       ELSE exitSuccessCount' = exitSuccessCount + 1 /\ UNCHANGED exitFailureCount
  /\ rclass' = ClassifyExit(errLines, ExitCode(waitErr), waitErr)
  /\ runPc' = "set_class"
  /\ Quiet
  /\ UNCHANGED <<cfgVars, sm, handleVars, logger, stopCh, restartCount, startSuccessCount,
                 startFailureCount, lastVars, backoff, since, rcmd, serr, rfrom, runRet,
                 attempts, ctxDone, stopVars, childVars, trigVars, sideVars>>

\* line 625 and lines 906-910: setLastClass sets the field and captures the
\* snapshot under the mutex
ExitSetLastClass ==
  /\ runPc = "set_class" /\ mpc["loop"] = "idle"
  /\ lastClass' = rclass
  /\ mlog' = Append(mlog, [f |-> "lastClass", v |-> rclass])
  /\ msnap' = Set(msnap, "loop", [snap |-> snapshotLocked(lastExit, lastClass',
                                                          lastTriggerReason, lastSuccess),
                                  at |-> Len(mlog')])
  /\ mpc' = Set(mpc, "loop", "write")
  /\ runPc' = "record_exit"
  /\ Quiet
  /\ UNCHANGED <<cfgVars, sm, handleVars, logger, stopCh, countVars, lastExit, lastSuccess,
                 lastTriggerReason, backoff, since, runLocals, attempts, ctxDone, stopVars,
                 childVars, trigVars, gateVars, fwdVars, stateWriter, sunk, mu, onceVars,
                 moreVars>>

\* lines 626-630 and lines 881-885: the exit message, recordExit sets the
\* field and captures the snapshot; setLastClass has returned from the writer
ExitRecordExit ==
  /\ runPc = "record_exit" /\ mpc["loop"] = "idle"
  /\ LET msg == FormatExit(ExitCode(werr), werr)
     IN lastExit' = IF rclass # "clean" THEN msg \o " (" \o rclass \o ")" ELSE msg
  /\ mlog' = Append(mlog, [f |-> "lastExit", v |-> lastExit'])
  /\ msnap' = Set(msnap, "loop", [snap |-> snapshotLocked(lastExit', lastClass,
                                                          lastTriggerReason, lastSuccess),
                                  at |-> Len(mlog')])
  /\ mpc' = Set(mpc, "loop", "write")
  /\ runPc' = "exit_event"
  /\ Quiet
  /\ UNCHANGED <<cfgVars, sm, handleVars, logger, stopCh, countVars, lastClass, lastSuccess,
                 lastTriggerReason, backoff, since, runLocals, attempts, ctxDone, stopVars,
                 childVars, trigVars, gateVars, fwdVars, stateWriter, sunk, mu, onceVars,
                 moreVars>>

\* lines 631-649: recordExit has returned from the writer; the ssh_exited event
ExitEvent ==
  /\ runPc = "exit_event" /\ mpc["loop"] = "idle"
  /\ Emit(IF werr # "nil" THEN "ERROR" ELSE "INFO", "ssh_exited", rclass)
  /\ runPc' = "to_stopped"
  /\ UNCHANGED <<cfgVars, fieldVars, runLocals, attempts, ctxDone, stopVars, childVars,
                 trigVars, sideVars>>

\* the loop with its exit handling step by step, the writer, the children
ExitSnapNext ==
  \/ RunBegin \/ RunCheck \/ RunStartConnecting \/ RunSpawnFail \/ RunSpawnOk \/ RunAssign
  \/ RunConnected \/ RunStartFailed \/ RunBackoff \/ RunStarted
  \/ ExitCounted \/ ExitSetLastClass \/ ExitRecordExit \/ ExitEvent \/ SnapWrite("loop")
  \/ RunToStopped \/ RunClear \/ RunDecide \/ RunCancel \/ RunReturn
  \/ StartChildren

ExitSnapSpec == FwdInit /\ [][ExitSnapNext]_vars

\* a Backoff built with one of the parameter sets (line 367: the stored
\* delay starts at minDelayMs), then nextDelayMs and reset in any order
BackoffInit ==
  /\ Configured(FwdConfigs) /\ Constructed
  /\ GateIdle /\ FwdIdle /\ stateWriter = TRUE /\ SnapIdle /\ OnceIdle /\ ClassIdle
  /\ WatchIdle
  /\ \E p \in BackoffParams :
       minDelayMs = p.min /\ maxDelayMs = p.max /\ jitter = p.jitter
  /\ currentDelay = minDelayMs
  /\ delays = <<>>
BackoffSpec == BackoffInit /\ [][nextDelayMs \/ reset]_vars

\* the exit classifier alone: a stderr tail of up to MaxTail lines, an exit
\* code and a wait error are drawn, then ClassifyExit is applied to them
Tails == UNION {[1..n -> TailSamples] : n \in 0..MaxTail}
ExitCodes == {0, 255, -1}
ClassifyInit ==
  /\ Configured(FwdConfigs) /\ Constructed
  /\ GateIdle /\ FwdIdle /\ stateWriter = TRUE /\ SnapIdle /\ OnceIdle /\ BackIdle
  /\ WatchIdle
  /\ tailLines \in Tails /\ code \in ExitCodes /\ failure \in WaitErrs
  /\ label = "none"
Classify ==
  /\ label = "none"
  /\ label' = ClassifyExit(tailLines, code, failure)
  /\ Quiet
  /\ UNCHANGED <<runnerVars, backVars, watchVars, tailLines, code, failure>>
ClassifySpec == ClassifyInit /\ [][Classify]_vars

\* ------------------------------------------ pkg/monitor: the network watcher
\* the interfaces net.Interfaces() lists, in its order, and the one address
\* of each; lo is the loopback interface
IfOrder == <<"eth0", "lo", "en1">>
IfAddr(name) ==
  CASE name = "eth0" -> "10.0.0.2/24"
    [] name = "lo" -> "127.0.0.1/8"
    [] name = "en1" -> "192.168.1.2/24"

\* byte order of the characters that occur in an entry
Ascii == "./0123456789abcdefghijklmnopqrstuvwxyz|"
Rank(ch) == CHOOSE i \in 1..Len(Ascii) : SubSeq(Ascii, i, i) = ch
RECURSIVE StrLess(_, _)
StrLess(a, b) ==
  IF Len(b) = 0 THEN FALSE
  ELSE IF Len(a) = 0 THEN TRUE
  ELSE LET x == Rank(SubSeq(a, 1, 1))
           y == Rank(SubSeq(b, 1, 1))
       IN IF x # y THEN x < y ELSE StrLess(SubSeq(a, 2, Len(a)), SubSeq(b, 2, Len(b)))

\* sort.Strings
RECURSIVE InsertSorted(_, _)
InsertSorted(sorted, e) ==
  IF sorted = <<>> THEN <<e>>
  ELSE IF StrLess(e, Head(sorted)) THEN <<e>> \o sorted
  ELSE <<Head(sorted)>> \o InsertSorted(Tail(sorted), e)
RECURSIVE SortStrings(_)
SortStrings(seq) ==
  IF seq = <<>> THEN <<>> ELSE InsertSorted(SortStrings(Tail(seq)), Head(seq))

\* strings.Join
RECURSIVE Join(_, _)
Join(seq, sep) ==
  IF seq = <<>> THEN ""
  ELSE IF Len(seq) = 1 THEN seq[1]
  ELSE seq[1] \o sep \o Join(Tail(seq), sep)

\* lines 137-151: an entry "name|addr" for each address of each interface
\* that is up, is not the loopback and whose Addrs() did not fail
RECURSIVE EntriesFrom(_, _, _)
EntriesFrom(i, up, addrFail) ==
  IF i > Len(IfOrder) THEN <<>>
  ELSE LET name == IfOrder[i]
           rest == EntriesFrom(i + 1, up, addrFail)
       IN IF name \notin up \/ name = "lo" \/ name \in addrFail THEN rest
          ELSE <<name \o "|" \o IfAddr(name)>> \o rest

\* lines 132-155; ifErr: net.Interfaces() fails
networkFingerprint(up, ifErr, addrFail) ==
  IF ifErr THEN [fp |-> "", err |-> "interfaces"]
  ELSE [fp |-> Join(SortStrings(EntriesFrom(1, up, addrFail)), ","), err |-> "nil"]

\* the failures a fingerprint computation can meet
AddrFails == {{}, {"eth0"}}

\* lines 105-109 (interval > 0): the first fingerprint is recorded, its error
\* is dropped
WatchStart(ifErr, addrFail) ==
  /\ wpc = "init"
  /\ prev' = networkFingerprint(ifUp, ifErr, addrFail).fp
  /\ netAtPrev' = ifUp
  /\ wpc' = "loop"
  /\ Quiet
  /\ UNCHANGED <<runnerVars, backVars, classVars, ifUp, wlog>>

\* lines 116-127: one tick of the ticker
WatchPoll(ifErr, addrFail) ==
  /\ wpc = "loop"
  /\ Len(wlog) < MaxPolls
  /\ LET next == networkFingerprint(ifUp, ifErr, addrFail)
         fire == next.err = "nil" /\ next.fp # prev
     IN /\ prev' = IF fire THEN next.fp ELSE prev
        /\ netAtPrev' = IF fire THEN ifUp ELSE netAtPrev
        /\ wlog' = Append(wlog, [fp |-> next.fp, err |-> next.err, fired |-> fire,
                                  before |-> prev, after |-> prev',
                                  net |-> ifUp, netBefore |-> netAtPrev])
  /\ Quiet
  /\ UNCHANGED <<runnerVars, backVars, classVars, ifUp, wpc>>

\* lines 114-115: the context is cancelled
WatchDone ==
  /\ wpc = "loop"
  /\ wpc' = "done"
  /\ Quiet
  /\ UNCHANGED <<runnerVars, backVars, classVars, ifUp, prev, netAtPrev, wlog>>

\* the environment: an interface goes up or down
NetChange(name) ==
  /\ wpc \in {"init", "loop"}
  /\ ifUp' = IF name \in ifUp THEN ifUp \ {name} ELSE ifUp \cup {name}
  /\ Quiet
  /\ UNCHANGED <<runnerVars, backVars, classVars, wpc, prev, netAtPrev, wlog>>

IfNames == {IfOrder[i] : i \in 1..Len(IfOrder)}
WatchInit ==
  /\ Configured(FwdConfigs) /\ Constructed
  /\ GateIdle /\ FwdIdle /\ stateWriter = TRUE /\ SnapIdle /\ OnceIdle /\ BackIdle
  /\ ClassIdle
  /\ ifUp \in SUBSET IfNames
  /\ wpc = "init" /\ prev = "" /\ netAtPrev = {} /\ wlog = <<>>
WatchNext ==
  \/ \E ifErr \in BOOLEAN, addrFail \in AddrFails : WatchStart(ifErr, addrFail)
  \/ \E ifErr \in BOOLEAN, addrFail \in AddrFails : WatchPoll(ifErr, addrFail)
  \/ WatchDone
  \/ \E name \in IfNames : NetChange(name)
WatchSpec == WatchInit /\ [][WatchNext]_vars

\* the forward API alone, on a configuration as loaded: ssh.remote_forwards is
\* stored as written in the file (part_006 line 87), Run has not been called;
\* the Stop that ClearRemoteForwards launches finds no child
RawForwards == {<<"a">>, <<" a", "a">>, <<"", "b", " b", "a">>}
CfgInit ==
  /\ Configured(FwdConfigs) /\ Constructed
  /\ GateIdle /\ forwards \in RawForwards /\ stateWriter = TRUE /\ SnapIdle /\ OnceIdle /\ PureIdle
CfgInputs == FwdInputs \cup {"a", " a", "b"}
CfgNext ==
  \/ \E forward \in CfgInputs : AddRemoteForward(forward)
  \/ \E forward \in CfgInputs : RemoveRemoteForward(forward)
  \/ ClearRemoteForwards
  \/ StopRead("req") \/ StopTransition("req")
CfgSpec == CfgInit /\ [][CfgNext]_vars

\* RequestStop called several times while the loop runs
OnceConfigs == {[policy |-> "always", debounce |-> 0, min |-> 1, max |-> 2]}
OnceInit ==
  /\ Configured(OnceConfigs) /\ Constructed
  /\ GateIdle /\ FwdIdle /\ stateWriter = TRUE /\ SnapIdle /\ OnceIdle /\ PureIdle
OnceNext ==
  RunLoop \/ RunStopping \/ StopNext \/ RequestStopCall \/ CancelOnStop \/ ChildNext
OnceSpec == OnceInit /\ [][OnceNext]_vars

\* ======================================================== properties
Unreaped1 == {c \in ChildIds : Unreaped(c)}
\* the positions of the loop from the classification of an exit to the return
AfterExit == {"to_stopped", "clear", "decide"}
Returning == {"ret", "ret_wait", "done"}

\* C1: at any moment at most one child process is spawned and not yet reaped
AtMostOneChild == Cardinality(Unreaped1) <= 1
\* a second child runs after the first one was reaped
SecondChildRuns == child[1] = "reaped" /\ child[2] = "running"

\* C3: once an exit is classified auth or hostkey the loop only returns: no
\* further child, no restartCount increment (every earlier Start counted
\* one), no backoff
AuthHostkeyTerminal ==
  lastClass \in {"auth", "hostkey"} =>
    /\ runPc \in AfterExit \cup Returning
    /\ Unreaped1 = {}
    /\ restartCount = attempts - 1
\* Run has returned after a second child ended with a host key failure
HostkeyReturned ==
  /\ lastClass = "hostkey" /\ runPc = "done" /\ rcmd = Nil /\ attempts = 2

\* C4: with policy on-failure, once a child has exited cleanly the loop only
\* returns, with nil: no further child, no restartCount increment, no backoff
CleanExitStops ==
  (policy = "on-failure" /\ lastClass = "clean") =>
    /\ runPc \in AfterExit \cup Returning
    /\ Unreaped1 = {}
    /\ restartCount = attempts - 1
    /\ runPc \in Returning => runRet = "nil"
\* Run has returned nil after a clean exit under on-failure
CleanExitReturned ==
  /\ policy = "on-failure" /\ lastClass = "clean" /\ runPc = "done" /\ runRet = "nil"

\* C2: once RequestStop was called and the Stop it launched is over, a Run
\* loop blocked on the completion event waits for a child that was
\* interrupted: it is never left waiting, hence never returning, for a child
\* that nobody signalled and that keeps running
StopEndsRun ==
  (stopCh /\ spc["req"] = "done" /\ runPc = "wait") => child[rcmd] # "running"

\* C5: after an exit that is to be restarted (class neither auth nor hostkey;
\* under on-failure a wait error or a non-zero exit code), Start is called
\* again unless stop is latched
Restartable ==
  /\ rclass \notin {"auth", "hostkey"}
  /\ policy = "always" \/ werr # "nil" \/ ExitCode(werr) # 0
RestartFollows ==
  (runPc = "decide" /\ Restartable /\ attempts < MaxAttempts)
    ~> (stopCh \/ runPc = "s_connecting")
\* Start is called a second time after a clean exit, no stop requested
RestartedAfterCleanExit ==
  /\ runPc = "s_connecting" /\ attempts = 2 /\ lastClass = "clean" /\ ~stopCh

\* C6: with a window > 0 a call of the gate is accepted iff no call was
\* accepted before or the last accepted one is at least the window back, and
\* lastTriggerAt is the instant of the last accepted call (a drop leaves it
\* alone); with a window <= 0 every call is accepted
Accepted(i) == {j \in 1..(i - 1) : gLog[j].ok}
LastAccepted(i) == CHOOSE j \in Accepted(i) : \A k \in Accepted(i) : k <= j
GateDecides ==
  /\ \A i \in 1..Len(gLog) :
       gLog[i].ok = \/ gWindow <= 0
                    \/ Accepted(i) = {}
                    \/ gLog[i].at - gLog[LastAccepted(i)].at >= gWindow
  /\ gWindow > 0 =>
       IF Accepted(Len(gLog) + 1) = {} THEN gSince = Never
       ELSE gSince = gNow - gLog[LastAccepted(Len(gLog) + 1)].at
\* window 2000 ms, triggers at 0, 500 and 2500 ms: accepted, dropped, accepted
GateS4 ==
  /\ gWindow = 2000
  /\ gLog = <<[at |-> 0, ok |-> TRUE], [at |-> 500, ok |-> FALSE], [at |-> 2500, ok |-> TRUE]>>

\* C7: a trigger that reaches the gate less than the debounce window after
\* the last accepted one is dropped: it returns without a signal and the
\* restart_skipped event with detail "debounced" is logged; any other trigger
\* is accepted and starts the window again
DebounceDrops ==
  [][\A t \in TrigProcs :
       (tpc[t] = "gate" /\ tpc'[t] # "gate") =>
         IF debounce > 0 /\ since # Never /\ since < debounce
           THEN /\ tpc'[t] = "idle"
                /\ emitted' = Event("INFO", "restart_skipped", treason[t] \o ": debounced")
                /\ child' = child /\ since' = since
           ELSE /\ tpc'[t] \in {"set", "term"}
                /\ since' = 0]_vars
\* a trigger was just dropped, one second after an accepted one
DebouncedDrop == emitted.ev = "restart_skipped" /\ since = 1

\* C8: a trigger that has reached the gate does not return before it has set
\* lastTriggerReason to its reason, dropped or not
GatedTriggerSetsReason ==
  [][\A t \in TrigProcs : (tpc[t] \in {"gate", "term"} /\ tpc'[t] = "idle") => twrote[t]]_vars

\* C9: a trigger that arrives while the state is not Connected is not handled
\* any further, and the step that ignores it changes no field of the
\* supervisor, no process and no trigger
TriggerIgnored ==
  [][/\ \A t \in TrigProcs : (tpc[t] = "idle" /\ sm # "Connected") => tpc'[t] = "idle"
     /\ emitted'.ev = "(trigger ignored)" =>
          UNCHANGED <<fieldVars, childVars, trigVars>>]_vars
\* a trigger was just ignored by a Connecting supervisor with a live child
IgnoredWhileConnecting ==
  /\ emitted.ev = "(trigger ignored)" /\ sm = "Connecting" /\ cmd # Nil /\ Alive(cmd)

\* C10: lastSuccess is never owed to a child that ended before its grace
\* period was over
GraceMarksSurvivor == lastSuccess # Nil => lastSuccess \notin early

\* C11: when Start has returned an error (a rejected transition, a build, pipe
\* or process-start error) the state is Stopped and the supervisor holds no
\* child handle and no completion channel
StartErrorLeavesStopped ==
  runPc = "start_failed" => (sm = "Stopped" /\ cmd = Nil /\ waitDone = Nil)

\* C12: once Start has returned an invalid-transition error the loop does not
\* retry: no restartCount increment and no backoff
InvalidTransitionFatal ==
  [][(runPc = "start_failed" /\ serr = "invalid transition") =>
       (restartCount' = restartCount /\ runPc' # "backoff")]_vars

\* C13: every transition the supervisor requests (by Start, by the exit
\* handling of the loop, by Stop) is one of the four legal ones
TransitionsInTable ==
  [][/\ (runPc = "s_connecting" /\ runPc' # runPc) => Legal(sm, "Connecting")
     /\ (runPc = "s_build" /\ runPc' = "start_failed") => Legal(sm, "Stopped")
     /\ (runPc = "s_connected" /\ runPc' # runPc) => Legal(sm, "Connected")
     /\ (runPc = "started" /\ runPc' = "ns_sleep") => Legal(sm, "Stopped")
     /\ (runPc = "to_stopped" /\ runPc' # runPc) => Legal(sm, "Stopped")
     /\ \A p \in Stoppers : (spc[p] = "trans" /\ spc'[p] # "trans") => Legal(sm, "Stopped")]_vars

\* C14: while the state is Connected the supervisor holds a child handle;
\* while it is Stopped the handle is nil, or the next step of the loop is the
\* one that clears it
HandleFollowsState ==
  /\ sm = "Connected" => cmd # Nil
  /\ sm = "Stopped" => (cmd = Nil \/ runPc \in {"clear", "s_rej_clear"})

\* C15: while the state is Connecting or Connected the forwards sequence is
\* not empty
ForwardsWhileUp == sm \in {"Connecting", "Connected"} => forwards # <<>>

\* the value a snapshot holds for a persisted field
SnapField(snap, f) ==
  CASE f = "lastExit" -> snap.lastExit
    [] f = "lastClass" -> snap.lastClass
    [] f = "lastTriggerReason" -> snap.lastTrigger
    [] f = "lastSuccess" -> snap.lastSuccess
Delivered(k) == {i \in 1..Len(sunk) : sunk[i].at = k}

\* C16: with a sink installed, the snapshot captured at a mutation is
\* delivered at most once and holds the value the mutation wrote, and every
\* mutation made is eventually followed by the delivery of its snapshot
SnapshotPerMutation ==
  /\ [](stateWriter =>
          \A k \in 1..Len(mlog) :
            /\ Cardinality(Delivered(k)) <= 1
            /\ \A i \in Delivered(k) : SnapField(sunk[i].snap, mlog[k].f) = mlog[k].v)
  /\ \A k \in 1..MaxMutations :
       (stateWriter /\ Len(mlog) >= k) ~> (Delivered(k) # {})
\* the loop has changed lastExit, a trigger lastTriggerReason, and the sink
\* has received both snapshots
TwoSnapshotsDelivered ==
  /\ stateWriter /\ Len(sunk) = 2 /\ \A m \in Mutators : mpc[m] = "idle"
  /\ mlog = <<[f |-> "lastExit", v |-> "exit 255 (unknown)"],
              [f |-> "lastTriggerReason", v |-> "network change"]>>

\* C17: the sink receives the snapshots in the order they were captured, and
\* when no mutator is at work the last one received holds the current
\* persisted fields
SinkInOrder ==
  /\ \A i, j \in 1..Len(sunk) : i < j => sunk[i].at <= sunk[j].at
  /\ (sunk # <<>> /\ \A m \in Mutators : mpc[m] = "idle") =>
       sunk[Len(sunk)].snap = snapshotLocked(lastExit, lastClass, lastTriggerReason,
                                             lastSuccess)

\* C18: however often RequestStop is called, stopCh is closed once (a second
\* close would panic), Stop is launched once, and after the first call the
\* stop is latched
StopLatchedOnce ==
  /\ closes <= 1 /\ launched <= 1
  /\ rsCalls >= 1 => (stopCh /\ closes = 1 /\ launched = 1)
  /\ rsCalls = 0 => (~stopCh /\ spc["req"] = "idle")
\* RequestStop was called twice, the Stop launched by the first call has
\* finished and Run has returned
StoppedTwice == rsCalls = 2 /\ spc["req"] = "done" /\ runPc = "done"

\* the positions of a loop that spawns no further child
Halting == {"sleep", "in_stop", "check", "ret", "ret_wait", "done"}

\* C19: when the backoff sleep ends while the stop is latched, it ends with
\* the stop_during_backoff event and the call of Stop
StopDuringBackoffLogged ==
  [][(runPc = "sleep" /\ stopCh /\ runPc' # "sleep") =>
       (runPc' = "in_stop" /\ emitted' = Event("INFO", "stop_during_backoff", ""))]_vars
\* C19, amended: with the stop latched during the backoff sleep, the loop
\* spawns no further child and Run returns; the sleep ends with the
\* stop_during_backoff event and the call of Stop, or with its timer, and
\* then the stop is seen at the stop check of the loop
StopEndsBackoff ==
  /\ [][(stopCh /\ runPc \in Halting) =>
          /\ runPc' \in Halting /\ attempts' = attempts
          /\ \A c \in ChildIds : child[c] = "none" => child'[c] = "none"
          /\ (runPc = "sleep" /\ runPc' # "sleep") =>
               \/ runPc' = "in_stop" /\ emitted' = Event("INFO", "stop_during_backoff", "")
               \/ runPc' = "check"
          /\ (runPc = "check" /\ runPc' # "check") =>
               (runPc' = "in_stop" /\ emitted' = Event("INFO", "stop_requested", ""))]_vars
  /\ (runPc = "sleep" /\ stopCh) ~> (runPc = "done")
\* the stop was latched during the sleep and has just ended it
StoppedInBackoff ==
  /\ runPc = "in_stop" /\ rfrom = "sleep" /\ emitted.ev = "stop_during_backoff"
  /\ spc["req"] # "idle"

\* C20: Run returns a non-nil error only for a fatal error: when it ends
\* because the latched stop was seen at the stop check or in the backoff
\* sleep, because of a policy stop or because of an auth/hostkey stop, its
\* result is nil.  Every return of the loop is one of these three
StopReturnsNil ==
  runPc \in Returning => runRet = "nil"

\* the step is a call of the forward API that returned changed = false
Unchanged(r) == r.op # "none" /\ ~r.changed
\* the call left the forwards alone and asked for no restart and no stop
NothingRequested ==
  /\ forwards' = forwards
  /\ stopCh' = stopCh /\ spc' = spc
  /\ child' = child /\ since' = since /\ lastTriggerReason' = lastTriggerReason
  /\ emitted' = NoEvent

\* C21: rejected and no-op forward mutations change nothing: Add/Remove of a
\* blank specification and Remove of the only remaining forward return an
\* error with changed = false; Remove of an absent specification and Clear on
\* an empty sequence return changed = false without error; in all these cases
\* the forwards stay as they are and neither a restart nor a stop is requested
RejectedChangesNothing ==
  [][/\ Unchanged(ret') => NothingRequested
     /\ (ret'.op \in {"add", "remove"} /\ TrimSpace(ret'.arg) = "") =>
          (~ret'.changed /\ ret'.err # "nil")
     /\ (ret'.op = "remove" /\ forwards = <<TrimSpace(ret'.arg)>>) =>
          (~ret'.changed /\ ret'.err # "nil")
     /\ (ret'.op = "remove" /\ TrimSpace(ret'.arg) # ""
           /\ ~Has(forwards, TrimSpace(ret'.arg))) =>
          (~ret'.changed /\ ret'.err = "nil")
     /\ (ret'.op = "clear" /\ forwards = <<>>) =>
          (~ret'.changed /\ ret'.err = "nil")]_vars
\* the removal of the only remaining forward has just been refused
LastForwardKept ==
  /\ ret.op = "remove" /\ ret.err = "at least one remote forward is required"
  /\ forwards = <<"b">>

\* no empty entry, every entry trimmed, no entry twice
Normal(seq) ==
  /\ \A i \in 1..Len(seq) : seq[i] # "" /\ TrimSpace(seq[i]) = seq[i]
  /\ \A i, j \in 1..Len(seq) : i # j => seq[i] # seq[j]

\* C22: whatever calls of Add, Remove and Clear were made, the forwards
\* sequence has no duplicate by trimmed value and no empty entry and keeps
\* the insertion order (an addition goes to the end, a removal keeps the order
\* of the rest); adding a specification already present returns changed =
\* false, leaves the sequence as it is and requests no restart
ForwardsNormalized ==
  /\ []Normal(currentRemoteForwards)
  /\ [][LET trimmed == TrimSpace(ret'.arg)
        IN /\ (ret'.op = "add" /\ ret'.changed) =>
                /\ ~Has(currentRemoteForwards, trimmed)
                /\ currentRemoteForwards' = Append(currentRemoteForwards, trimmed)
           /\ (ret'.op = "remove" /\ ret'.changed) =>
                currentRemoteForwards' =
                  SelectSeq(currentRemoteForwards, LAMBDA existing : existing # trimmed)
           /\ (ret'.op = "add" /\ Has(currentRemoteForwards, trimmed)) =>
                /\ ~ret'.changed /\ ret'.err = "nil"
                /\ forwards' = forwards
                /\ emitted' = NoEvent /\ child' = child /\ since' = since
                /\ lastTriggerReason' = lastTriggerReason]_vars
\* a specification present in trimmed form was added again, with a leading
\* blank, to a configuration loaded with a repeated entry
AddedTwice ==
  /\ ret = Ret("add", " b", FALSE, "nil")
  /\ forwards = <<"", "b", " b", "a">>

\* ClearRemoteForwards has just returned true on a Connected agent
ClearedWhileConnected == ret = Ret("clear", "", TRUE, "nil") /\ sm = "Connected"

\* C23: with one forward and state Connected, Clear returns changed = true,
\* empties the forwards and latches stop; the child is interrupted and the Run
\* loop returns with a policy stop (reason "cleared"; the event of the code
\* carries only policy and class, so any restart_policy_stop is accepted here)
ClearedStopsByPolicy ==
  /\ [](ClearedWhileConnected => (forwards = <<>> /\ stopCh /\ spc["req"] # "idle"))
  /\ ClearedWhileConnected ~> (runPc = "ret" /\ emitted.ev = "restart_policy_stop")

\* AddRemoteForward or RemoveRemoteForward has just returned changed = true on
\* a Connected agent whose child is c
ChangedWhileConnected(c) ==
  ret.op \in {"add", "remove"} /\ ret.changed /\ sm = "Connected" /\ cmd = c

\* C24: when Add or Remove returns changed = true while a child is Connected,
\* that child is terminated so that a child built from the new sequence
\* replaces it: it does not keep running for ever with the stale forwards,
\* also when another trigger was accepted shortly before
ChangeRestartsChild ==
  \A c \in ChildIds : ChangedWhileConnected(c) ~> (child[c] # "running")

\* C25: when Run has returned, for whatever reason, every task it started has
\* ended or was cancelled: the monitors' context is cancelled and no callback
\* of theirs or of the periodic ticker is at work, and the task that watches
\* the stop latch is not left blocked
TasksEndWithRun ==
  runPc = "done" =>
    /\ ctxDone
    /\ tpc["monitor"] = "idle" /\ tpc["periodic"] = "idle"
    /\ ~WatcherBlocked

\* C26: the TCP probe is diagnostic only: it dials only when it found the
\* state Connected, its steps write tcpCheckStatus, tcpCheckError and
\* lastTCPCheck and nothing else of the supervisor (no signal to a child, no
\* state change, no counter, no trigger reason, no debounce instant, no
\* event), and nobody else writes the three fields; the status is "unknown"
\* exactly until the first check and then "ok" with an empty error or "failed"
ProbeOnlyDiagnoses ==
  /\ [](/\ tcpCheckStatus \in {"unknown", "ok", "failed"}
        /\ (tcpCheckStatus = "unknown") <=> (lastTCPCheck = Never)
        /\ tcpCheckStatus \in {"unknown", "ok"} => tcpCheckError = "")
  /\ [][probeVars' # probeVars =>
          /\ UNCHANGED <<cfgVars, fieldVars, runVars, stopVars, childVars, trigVars,
                         gateVars, fwdVars, snapVars, onceVars, pureVars, pipeVars>>
          /\ emitted' = NoEvent]_vars
  /\ [][(ppc = "idle" /\ ppc' = "dial") => sm = "Connected"]_vars
  /\ [][<<tcpCheckStatus, tcpCheckError, lastTCPCheck>>' #
          <<tcpCheckStatus, tcpCheckError, lastTCPCheck>> =>
            (ppc = "dial" /\ ppc' = "idle")]_vars
\* a check made at the second tick succeeded and the child has ended since
ProbedOk ==
  /\ tcpCheckStatus = "ok" /\ lastTCPCheck = 2 /\ ppc = "idle" /\ sm = "Stopped"

\* the number of calls of Next that end at entry i of the log without a
\* Reset between them
RECURSIVE NextsUpTo(_)
NextsUpTo(i) == IF i = 0 \/ delays[i].op = "reset" THEN 0 ELSE 1 + NextsUpTo(i - 1)
RECURSIVE Times(_, _)
Times(v, k) == IF k = 0 THEN v ELSE Times(v * BackoffFactor, k - 1)
\* the delays Next returned, when no Reset was made
Returned == [i \in 1..Len(delays) |-> delays[i].delay]

\* C27: Next returns the stored delay (jitter 0) and then stores
\* min(maxMs, stored * factor), Reset stores minMs, the stored delay stays in
\* [minMs, maxMs]: the k-th Next after construction or Reset finds
\* min(maxMs, minMs * factor^(k-1)) stored; with min 2000, max 30000, factor 2,
\* jitter 0 the calls return 2000, 4000, 8000, 16000, 30000, 30000, ...
BackoffTrajectory ==
  /\ minDelayMs <= currentDelay /\ currentDelay <= maxDelayMs
  /\ currentDelay = Min(maxDelayMs, Times(minDelayMs, NextsUpTo(Len(delays))))
  /\ \A i \in 1..Len(delays) :
       delays[i].op = "next" =>
         /\ delays[i].stored = Min(maxDelayMs, Times(minDelayMs, NextsUpTo(i - 1)))
         /\ jitter = 0 => delays[i].delay = delays[i].stored
  /\ (minDelayMs = 2000 /\ maxDelayMs = 30000 /\ jitter = 0
        /\ \A i \in 1..Len(delays) : delays[i].op = "next") =>
       Returned = SubSeq(<<2000, 4000, 8000, 16000, 30000, 30000, 30000, 30000>>,
                         1, Len(delays))
\* six calls of Next were made on the Backoff of 2000 to 30000 ms: the last
\* two returned the maximum
Saturated ==
  /\ minDelayMs = 2000 /\ Len(delays) = 6
  /\ Returned = <<2000, 4000, 8000, 16000, 30000, 30000>>

\* the pattern groups each sample line is to match, read off the line
GroupsOf(line) ==
  CASE line = "PERMISSION DENIED (publickey)." -> {"auth"}
    [] line = "Host key verification failed." -> {"hostkey"}
    [] line = "ssh: Could not resolve hostname foo" -> {"dns"}
    [] line = "connect to host foo port 22: Connection refused" -> {"refused"}
    [] line = "Connection timed out" -> {"timeout"}
    [] line = "connect: Network is unreachable" -> {"network"}
    [] line = "Unauthorized: no route to host" -> {"auth", "network"}
    [] OTHER -> {}
TailGroups == UNION {GroupsOf(tailLines[k]) : k \in 1..Len(tailLines)}

\* C28: the classifier always returns one of the eight labels; clean exactly
\* when there is no wait error and the exit code is 0, whatever the tail;
\* otherwise the first group, in the order auth, hostkey, dns, refused,
\* timeout, network, that a tail line matches (letter case ignored), and
\* unknown when none does, an empty tail included
ClassifierContract ==
  label # "none" =>
    /\ label \in {"clean", "auth", "hostkey", "dns", "network", "refused", "timeout",
                  "unknown"}
    /\ (label = "clean") <=> (failure = "nil" /\ code = 0)
    /\ label # "clean" =>
         label = IF "auth" \in TailGroups THEN "auth"
                 ELSE IF "hostkey" \in TailGroups THEN "hostkey"
                 ELSE IF "dns" \in TailGroups THEN "dns"
                 ELSE IF "refused" \in TailGroups THEN "refused"
                 ELSE IF "timeout" \in TailGroups THEN "timeout"
                 ELSE IF "network" \in TailGroups THEN "network"
                 ELSE "unknown"
\* a failed exit whose tail has a network line before an upper-case auth line
\* was classified auth
AuthBeatsNetwork ==
  /\ tailLines = <<"connect: Network is unreachable", "PERMISSION DENIED (publickey).">>
  /\ code = 255 /\ failure = "ExitError" /\ label = "auth"

\* C29: the watcher calls onEvent("network change") at a poll exactly when the
\* fingerprint computed differs from the recorded one, and never when the
\* interfaces are as they were when the recorded fingerprint was taken; a poll
\* whose computation fails calls nothing and leaves the recorded fingerprint
\* as it was, and the watcher goes on polling
NetworkChangeOnce ==
  /\ \A i \in 1..Len(wlog) :
       /\ wlog[i].fired <=> (wlog[i].err = "nil" /\ wlog[i].fp # wlog[i].before)
       /\ wlog[i].fired => wlog[i].net # wlog[i].netBefore
       /\ wlog[i].err # "nil" => (~wlog[i].fired /\ wlog[i].after = wlog[i].before)
  /\ wlog # <<>> => wpc \in {"loop", "done"}

\* C30: the OS wait of a child returns in its wait task and nowhere else: the
\* step that reaps a child finds it exited, closes its completion event (not
\* closed before) and is no step of the Run loop (Start and its cleanup
\* included) or of a Stop; a reaped child is never waited for again; the
\* completion event of a child is closed exactly when the child is reaped, so
\* the loop, Start's cleanup and Stop, which go on only when the event is
\* closed or their timer fired, never wait on the process themselves
OneWaiterPerChild ==
  /\ [][\A c \in ChildIds :
          (child[c] # "reaped" /\ child'[c] = "reaped") =>
            /\ child[c] = "exited"
            /\ c \notin closed /\ closed' = closed \cup {c}
            /\ UNCHANGED <<runVars, stopVars>>]_vars
  /\ [][\A c \in ChildIds : child[c] = "reaped" => child'[c] = "reaped"]_vars
  /\ [](\A c \in ChildIds : c \in closed <=> child[c] = "reaped")
\* the first child was reaped by its wait task while the Stop launched by
\* RequestStop was waiting for its completion event
ReapedUnderStop ==
  /\ child[1] = "reaped" /\ 1 \in closed
  /\ spc["req"] = "wait3" /\ scmd["req"] = 1 /\ swd["req"] = 1

\* C31: when the loop classifies the exit of a child, the ring holds the lines
\* the child wrote to stderr (its last RingSize lines); a child that wrote an
\* auth error and ended with an exit error is classified auth
RingFilledBeforeClassify ==
  /\ [][(runPc = "wait" /\ runPc' = "to_stopped") =>
          errLines = Drain(<<>>, wrote[rcmd])]_vars
  /\ [](\A c \in ChildIds :
          (runPc \in AfterExit /\ rcmd = c /\ werr # "nil"
             /\ wrote[c] = <<"Permission denied (publickey).">>) => rclass = "auth")

\* C32: a restart trigger that passed its state check sends SIGTERM only to
\* the child that was Connected then; in particular the step of a trigger
\* that signals a child never finds the state Connecting (a replacement child
\* being started)
TriggerHitsCheckedChild ==
  [][\A t \in TrigProcs :
       (tpc[t] = "term" /\ tpc'[t] = "idle" /\ child' # child) => sm = "Connected"]_vars

\* C33: after a rejected Connecting->Connected transition Start has signalled
\* the child before it waits; it force-kills only from the first wait and
\* waits once more; it clears the handle only when the completion event has
\* fired or the second wait is over, and returns the error only then: when
\* Start has returned the transition error the handle is nil and no child is
\* left running unsignalled
RejectedStartCleansUp ==
  /\ [](runPc \in {"s_rej_wait3", "s_rej_wait1", "s_rej_clear"} =>
          child[rcmd] # "running")
  /\ [][(runPc # "s_rej_wait1" /\ runPc' = "s_rej_wait1") => runPc = "s_rej_wait3"]_vars
  /\ [][(runPc # "s_rej_clear" /\ runPc' = "s_rej_clear") =>
          \/ runPc = "s_rej_wait3" /\ rcmd \in closed
          \/ runPc = "s_rej_wait1"]_vars
  /\ [][(runPc = "s_rej_clear" /\ runPc' # "s_rej_clear") =>
          (runPc' = "start_failed" /\ serr' = "invalid transition" /\ cmd' = Nil)]_vars
  /\ []((runPc = "start_failed" /\ serr = "invalid transition") =>
          (cmd = Nil /\ \A c \in ChildIds : child[c] # "running"))
\* Start has returned the transition error after both waits ended by their
\* timers: the child was signalled twice and has not ended yet
KilledAndReturned ==
  /\ runPc = "start_failed" /\ serr = "invalid transition"
  /\ cmd = Nil /\ child[1] = "terminating" /\ 1 \notin closed

\* C34: Stop sends the interrupt to a child that exists; it force-kills only
\* from the first wait and then waits once more; it requests the transition
\* to Stopped only after the wait (the completion event fired, or the second
\* wait is over), and at once when there is no child
StopInterruptsThenWaits ==
  [][\A p \in Stoppers :
       /\ (spc[p] = "read" /\ spc'[p] # "read") =>
            /\ \A c \in ChildIds : child[c] = "running" => child'[c] = "terminating"
            /\ (\A c \in ChildIds : ~Unreaped(c)) => spc'[p] = "trans"
       /\ (spc[p] # "wait1" /\ spc'[p] = "wait1") => spc[p] = "wait3"
       /\ (spc[p] # "trans" /\ spc'[p] = "trans") =>
            \/ spc[p] = "read" /\ \A c \in ChildIds : child[c] # "running"
            \/ spc[p] = "wait3" /\ swd[p] \in closed
            \/ spc[p] = "wait1"]_vars

\* C35: the step that decides a restart after a child's exit increments
\* restartCount by one and resets the backoff exactly when the wait error is
\* nil; a start failure leaves the backoff as it is; the loop comes to its
\* backoff only by one of these two steps and leaves it only by one Next(),
\* which stores min(max, stored * factor); nothing else writes the backoff
ResetOnlyAfterCleanExit ==
  /\ [][(runPc = "decide" /\ runPc' = "backoff") =>
          /\ restartCount' = restartCount + 1
          /\ backoff' = IF werr = "nil" THEN bcfg.min ELSE backoff]_vars
  /\ [][(runPc = "start_failed" /\ runPc' # "start_failed") =>
          (runPc' = "backoff" /\ backoff' = backoff
             /\ restartCount' = restartCount + 1)]_vars
  /\ [][(runPc # "backoff" /\ runPc' = "backoff") =>
          runPc \in {"decide", "start_failed"}]_vars
  /\ [][(runPc = "backoff" /\ runPc' # "backoff") =>
          /\ backoff' = Min(bcfg.max, backoff * BackoffFactor)
          /\ runPc' = IF backoff <= 0 THEN "check" ELSE "sleep"]_vars
  /\ [][backoff' # backoff =>
          (runPc = "backoff" \/ (runPc = "decide" /\ werr = "nil"))]_vars
  /\ [][restartCount' # restartCount => runPc' = "backoff"]_vars
\* the second child ended cleanly after the stored delay had grown to the
\* maximum: the restart decision reset it to the minimum
ResetAfterSecondExit ==
  /\ runPc = "backoff" /\ restartCount = 2 /\ exitSuccessCount = 1
  /\ exitFailureCount = 1 /\ lastExit = "exit 0" /\ bcfg.min = 1 /\ backoff = 1

\* C36: a build, pipe or process-start error adds one to startFailureCount
\* and to no other start or exit counter and leaves the state Stopped; the
\* loop then stores the "start failed" exit reason and trigger reason and
\* goes to its backoff, from which it comes back to the spawn unless a stop
\* or a cancellation ends the sleep; nothing else counts a start failure
StartErrorCountedAndRetried ==
  /\ [][(runPc = "s_build" /\ runPc' = "start_failed") =>
          /\ startFailureCount' = startFailureCount + 1
          /\ UNCHANGED <<startSuccessCount, exitSuccessCount, exitFailureCount>>
          /\ sm' = "Stopped"]_vars
  /\ [][(runPc = "start_failed" /\ serr = "spawn error" /\ runPc' # runPc) =>
          /\ lastExit' = "start failed: spawn error"
          /\ lastTriggerReason' = "start failed"
          /\ sm' = "Stopped"
          /\ UNCHANGED <<startSuccessCount, startFailureCount, exitSuccessCount,
                         exitFailureCount>>
          /\ runPc' = "backoff"]_vars
  /\ [][(runPc = "backoff" /\ runPc' # runPc) => runPc' \in {"check", "sleep"}]_vars
  /\ [][(runPc = "sleep" /\ runPc' \notin {"sleep", "check"}) => (stopCh \/ ctxDone)]_vars
  /\ [][startFailureCount' # startFailureCount => runPc = "s_build"]_vars
\* the first spawn failed and the loop is at the spawn again
SpawnRetried ==
  /\ runPc = "s_build" /\ attempts = 2 /\ startFailureCount = 1
  /\ startSuccessCount = 0 /\ lastExit = "start failed: spawn error"
  /\ lastTriggerReason = "start failed" /\ restartCount = 1

\* C37: when the loop stops because the exit class is auth or hostkey, the
\* restart_policy_stop event of that step is at ERROR level
AuthStopLoggedAsError ==
  [][(runPc = "decide" /\ rclass \in {"auth", "hostkey"} /\ runPc' = "ret") =>
       emitted' = Event("ERROR", "restart_policy_stop", rclass)]_vars

\* C38: on a child's exit the writer receives the snapshots that carry the
\* new lastClass and the new lastExit only when the state is no longer
\* Connected
ExitSnapshotAfterTransition ==
  [][(runPc \in {"record_exit", "exit_event"} /\ mpc["loop"] = "write"
        /\ sunk' # sunk) => sm # "Connected"]_vars

\* C39: a mutator that is at the call of the writer does not hold the
\* supervisor mutex, and a snapshot reaches the writer only by such a call:
\* the step changes no field and is made by a mutator that has released the
\* mutex
SinkOutsideMutex ==
  /\ [](\A m \in Mutators : mpc[m] = "write" => mu # m)
  /\ [][sunk' # sunk =>
          \E m \in Mutators :
            /\ mpc[m] = "write" /\ mu # m /\ mpc'[m] = "idle"
            /\ sunk' = Append(sunk, msnap[m])
            /\ UNCHANGED <<lastVars, mlog, mu>>]_vars
\* the loop is at the call of the writer while a trigger holds the mutex: an
\* accessor called by the writer waits for the trigger, not for the loop
SinkWhileOtherLocks ==
  stateWriter /\ mpc["loop"] = "write" /\ mu = "trigger" /\ mpc["trigger"] = "locked"

\* C40: the exits counted never exceed the successful starts counted, and
\* at most one successful start has no counted exit yet; an exit is counted
\* when the loop has seen the completion of the child it started last, and it
\* makes the two sums equal; they are equal when Run has returned
ExitsFollowStarts ==
  /\ [](/\ exitSuccessCount + exitFailureCount <= startSuccessCount
        /\ startSuccessCount <= exitSuccessCount + exitFailureCount + 1
        /\ runPc = "returned" =>
             startSuccessCount = exitSuccessCount + exitFailureCount)
  /\ [][exitSuccessCount' + exitFailureCount' # exitSuccessCount + exitFailureCount =>
          /\ runPc = "wait" /\ rcmd \in closed
          /\ exitSuccessCount' + exitFailureCount' = startSuccessCount]_vars
\* the second child runs: two starts are counted and one exit
SecondChildUncounted ==
  /\ runPc = "wait" /\ startSuccessCount = 2 /\ rcmd = 2 /\ child[2] = "running"
  /\ exitSuccessCount + exitFailureCount = 1
====
